---- MODULE Spec2Model ----
(***************************************************************************)
(* Verification model of dundas/seedid.                                    *)
(*                                                                         *)
(* Part I  : the NWC connector (sdks/wallet-connectors/src/nwc.ts, the     *)
(*           version with reserveBudget/releaseBudget, lines 175-513) as a *)
(*           state machine: one action per method call, relay delivery,    *)
(*           timer expiry and publish rejection.  JavaScript runs each     *)
(*           callback to completion, so every handler is one atomic step.  *)
(* Part II : the wallet derivation functions (sdks/wallets/src) as pure    *)
(*           operators applied to inputs drawn from bounded sets.          *)
(* Part III: the core primitives (sdks/core: normalizePassphrase, hkdf,    *)
(*           deriveMasterKey, the namespace helpers), likewise.            *)
(* Part IV : the byte buffers a caller of the wallet functions holds, and  *)
(*           zeroize (sdks/wallets/src/utils.ts).                          *)
(* Part V  : the browser wallet connectors (MetaMaskConnector,             *)
(*           PhantomConnector) with their provider and their listeners.    *)
(* Part VI : the provider registry of WalletManager.                       *)
(***************************************************************************)
EXTENDS Integers, Sequences, FiniteSets, TLC

VARIABLES
    connected,   \* NwcConnector.connected
    session,     \* NwcConnector.session (live = FALSE models null)
    relay,       \* NwcConnector.relay   (FALSE models null)
    subs,        \* relay side: request ids whose response handler is subscribed
    pubs,        \* relay side: request ids for which relay.publish was called
    reqs,        \* the closures of the sendRequest promises, by request id
    nextId,      \* next fresh request id (randomUUID never repeats)
    epoch,       \* number of successful connect() calls so far
    last,        \* the most recent method call and how it returned
    wcall,       \* Parts II and III: the most recent derivation call and its result
    heap,        \* Part IV: the Uint8Array buffers allocated so far, by reference
    caller,      \* Part IV: the references a caller holds and its last operation
    prov,        \* Part V: the injected provider object (window.ethereum / window.solana)
    conn,        \* Part V: the connector object created and its private fields
    mcall,       \* Part V: the most recent method call on the connector
    lst,         \* the listeners registered on the connector (EventEmitter)
    fired,       \* the listeners the last emit invoked, and those a disconnect found
    mgr          \* Part VI: WalletManager.providers and the connect() calls in flight

nwcVars == <<connected, session, relay, subs, pubs, reqs, nextId, epoch, last>>
\* the state outside the NWC connector and the derivation call record
memVars == <<heap, caller, mgr>>
webVars == <<prov, conn, mcall>>
otherVars == <<memVars, webVars, lst, fired>>
vars == <<connected, session, relay, subs, pubs, reqs, nextId, epoch, last, wcall, otherVars>>

----------------------------------------------------------------------------
(* Bounds of the model. *)

MaxReq == 2        \* sendRequest calls that reach the relay or reserve budget
MaxBudget == 2     \* largest budgetSats a pairing grants
MaxAmt == 1        \* largest amountSats of a pay_invoice call
MaxEpoch == 2      \* successful connect() calls
NumKeys == 1       \* distinct valid 64-hex client secrets

----------------------------------------------------------------------------
(* Values. *)

Methods == {"get_info", "pay_invoice"}

ReqIds == 1..MaxReq

\* this.session = null
NoSession ==
    [live |-> FALSE, wallet |-> "hex", secret |-> 0, caps |-> {},
     hasBudget |-> FALSE, budget |-> 0, grant |-> 0, sid |-> 0]

\* A session object as a caller or parseNwcUri builds it.  secret = 0 is a
\* clientSecret that is not 64 hex characters; wallet = "npub" is a wallet
\* pubkey in npub form; caps = {} is caps undefined or []; grant remembers
\* the budget the session was created with.
SessionOf(w, k, c, hb, b) ==
    [live |-> TRUE, wallet |-> w, secret |-> k, caps |-> c,
     hasBudget |-> hb, budget |-> b, grant |-> b, sid |-> 0]

BudgetInputs == {<<FALSE, 0>>} \cup { <<TRUE, b>> : b \in 0..MaxBudget }

CapInputs == {{}, {"get_info"}, {"pay_invoice"}}

\* well-formed sessions, and sessions with one defect: an npub wallet pubkey
\* (parseNwcUri accepts it) or a clientSecret that is not 64-hex (only a
\* caller-built session can carry it)
SessionInputs ==
    { SessionOf("hex", k, c, hb[1], hb[2]) :
        k \in 1..NumKeys, c \in CapInputs, hb \in BudgetInputs }
    \cup { SessionOf("npub", 1, {}, hb[1], hb[2]) : hb \in BudgetInputs }
    \cup { SessionOf("hex", 0, {}, hb[1], hb[2]) : hb \in BudgetInputs }

\* nwc.ts input validation constants
MAX_RELAY_URL_LENGTH == 2048
MAX_CAPABILITY_LENGTH == 64
MAX_CAPABILITIES_COUNT == 32
ALLOWED_CAPABILITIES ==
    {"get_info", "pay_invoice", "make_invoice", "lookup_invoice",
     "list_transactions", "get_balance"}

\* A pairing URI as parseNwcUri sees it:
\*   scheme  whether it starts with nostr+walletconnect://
\*   wallet  the text before '?': 64 hex characters, 'npub' followed by six or
\*           more characters, some other text of eight or more characters
\*           ("bad"), or fewer than eight characters ("short")
\*   relays  the relay parameters: whether each matches /^wss:\/\//i, and its
\*           length
\*   secret  the secret parameter: present or not, and which 64-hex key it is
\*           (k = 0: not 64 hex characters)
\*   caps    the cap parameters: each one's text and length
\*   budget  the budget parameter: absent, empty, a finite number >= 0, a
\*           negative number, text that Number() turns into NaN, or Infinity
Relay(w, n) == [wss |-> w, len |-> n]

Cap(name, n) == [name |-> name, len |-> n]

Uri(sc, w, rs, k, cs, b) ==
    [scheme |-> sc, wallet |-> w, relays |-> rs, secret |-> k, caps |-> cs, budget |-> b]

GoodRelay == Relay(TRUE, 24)

GoodSecret == [has |-> TRUE, k |-> 1]

NoBudgetParam == [kind |-> "absent", n |-> 0]

\* URIs parseNwcUri accepts
GoodUris ==
    { u \in { Uri(TRUE, w, << GoodRelay >>, [has |-> TRUE, k |-> k], cs, b) :
                w \in {"hex", "npub"}, k \in 1..NumKeys,
                cs \in { <<>>, << Cap("get_info", 8) >>,
                         [i \in 1..MAX_CAPABILITIES_COUNT |-> Cap("get_info", 8)] },
                b \in { NoBudgetParam, [kind |-> "empty", n |-> 0] }
                        \cup { [kind |-> "int", n |-> n] : n \in 0..MaxBudget } } :
        u.wallet = "hex" \/ u.caps = <<>> }
      \cup { Uri(TRUE, "hex", rs, GoodSecret, <<>>, NoBudgetParam) :
                rs \in { <<>>, << Relay(TRUE, MAX_RELAY_URL_LENGTH) >> } }

\* URIs with one thing wrong, and one with everything wrong
BadUris ==
    { Uri(FALSE, "hex", << GoodRelay >>, GoodSecret, <<>>, NoBudgetParam) }
      \cup { Uri(TRUE, w, << GoodRelay >>, GoodSecret, <<>>, NoBudgetParam) :
                w \in {"bad", "short"} }
      \cup { Uri(TRUE, "hex", rs, GoodSecret, <<>>, NoBudgetParam) :
                rs \in { << Relay(FALSE, 24) >>,
                         << Relay(TRUE, MAX_RELAY_URL_LENGTH + 1) >>,
                         << GoodRelay, Relay(FALSE, 24) >> } }
      \cup { Uri(TRUE, "hex", << GoodRelay >>, k, <<>>, NoBudgetParam) :
                k \in { [has |-> FALSE, k |-> 0], [has |-> TRUE, k |-> 0] } }
      \cup { Uri(TRUE, "hex", << GoodRelay >>, GoodSecret, cs, NoBudgetParam) :
                cs \in { [i \in 1..(MAX_CAPABILITIES_COUNT + 1) |-> Cap("get_info", 8)],
                         << Cap("sign_event", 10) >>,
                         << Cap("get_info", 8), Cap("sign_event", 10) >>,
                         << Cap("long", MAX_CAPABILITY_LENGTH + 1) >> } }
      \cup { Uri(TRUE, "hex", << GoodRelay >>, GoodSecret, <<>>, [kind |-> k, n |-> 0]) :
                k \in {"neg", "nan", "inf"} }
      \cup { Uri(FALSE, "bad", << Relay(FALSE, 24) >>, [has |-> FALSE, k |-> 0],
                 << Cap("sign_event", 10) >>, [kind |-> "nan", n |-> 0]) }

UriInputs == GoodUris \cup BadUris

\* The options argument of connect()
ConnectInputs ==
    {[kind |-> "none", uri |-> <<>>, sess |-> NoSession]}
    \cup { [kind |-> "session", uri |-> <<>>, sess |-> s] : s \in SessionInputs }
    \cup { [kind |-> "uri", uri |-> u, sess |-> NoSession] : u \in UriInputs }

FreeReq ==
    [st |-> "free", amt |-> 0, sid |-> 0, timer |-> FALSE, cause |-> "none"]

\* The arguments of a sendRequest call: params.amountSats (has = FALSE when the
\* field is missing or not a number; fin = FALSE when it is NaN, Infinity or
\* -Infinity; amt is its value when it is a finite number) and whether
\* JSON.stringify(envelope) fits what NIP-44 can encrypt.
ParamInputs ==
    { p \in { [has |-> h, fin |-> n, amt |-> a, fits |-> f] :
                h \in BOOLEAN, n \in BOOLEAN, a \in (0 - 1)..MaxAmt, f \in BOOLEAN } :
        /\ p.fin => p.has
        /\ ~p.fin => p.amt = 0 }

\* an amount check that lets 0 through
BadAmountParamZeroOk(p) == ~(p.has /\ p.fin) \/ p.amt < 0

\* !Number.isFinite(amt) || amt <= 0, amt being NaN when amountSats is not a
\* number
BadAmountParam(p) == ~(p.has /\ p.fin) \/ p.amt <= 0

\* A relay message on the response topic: the id inside the envelope (0 is an
\* id of nobody), whether it carries an error, and the client secret of the
\* conversation key it was encrypted under (0: not decryptable or not JSON).
MsgInputs ==
    { [id |-> i, err |-> e, key |-> k] :
        i \in 0..MaxReq, e \in BOOLEAN, k \in 0..NumKeys }

NoCall ==
    [op |-> "none", outcome |-> "none", capOk |-> TRUE, over |-> FALSE,
     touched |-> FALSE, same |-> TRUE, val |-> 0]

NoResult ==
    [status |-> "none", err |-> "", ops |-> <<>>,
     address |-> <<>>, publicKey |-> <<>>, privateKey |-> <<>>]

\* type: the address type a BTC call was given ("absent" elsewhere)
\* window.ethereum / window.solana undefined, and no provider object
NoProv ==
    [present |-> FALSE, exists |-> FALSE, isMetaMask |-> FALSE, hasOn |-> FALSE,
     hasRemove |-> FALSE, cbs |-> {}]

\* no connector constructed; the initial values of a connector's fields
NoConn ==
    [kind |-> "none", connected |-> FALSE, account |-> 0, chainId |-> 0,
     handlers |-> 0, eth |-> FALSE, pc |-> "idle", dpc |-> "idle", dsol |-> FALSE,
     nconn |-> 0, nlst |-> 0]

NoMCall == [fn |-> "none", arg |-> <<>>, resp |-> <<>>, was |-> <<>>,
            outcome |-> "none", sent |-> <<>>]

\* n: events delivered so far; invoked: the listeners the last one reached;
\* dead: the listeners that were registered when some disconnect() completed,
\* deadThen: those among them that were so before the last event
NoFired == [n |-> 0, ev |-> "none", invoked |-> {}, dead |-> {}, deadThen |-> {}]

\* a new WalletManager: an empty providers map, no call made
NoMgr ==
    [providers |-> <<>>, made |-> <<>>, pending |-> {}, okEver |-> {}, n |-> 0,
     call |-> [fn |-> "none", arg |-> "none", outcome |-> "none",
               ret |-> [type |-> "none", id |-> 0]]]

\* no signing key requested yet, nothing zeroized
NoCaller ==
    [op |-> "none", fn |-> "none", root |-> 0, arg |-> <<>>, key |-> 0,
     address |-> <<>>, target |-> 0, zeroized |-> 0]

NoWCall ==
    [fn |-> "none", root |-> <<>>, arg |-> <<>>, type |-> "absent", res |-> NoResult]

----------------------------------------------------------------------------
(* errors.ts: the class of each rejection. *)

ErrClass(outcome) ==
    CASE outcome \in {"NotConnected", "BadAmount", "OverBudget", "KeyError",
                      "EncryptError", "BadInvoice", "MissingSession",
                      "BadUri"} -> "ValidationError"
      [] outcome \in {"NoRelay", "CapNotGranted"} -> "UnsupportedFeatureError"
      [] OTHER -> "none"

----------------------------------------------------------------------------
(* nip44.ts *)

\* isHex64 of a client secret / of a wallet pubkey
isHex64Secret(k) == k # 0
isHex64Wallet(w) == w = "hex"

\* derivePublicKey: [ok, pub]; the public key of secret k is written k
derivePublicKey(k) ==
    IF ~isHex64Secret(k) THEN [ok |-> FALSE, pub |-> 0]
    ELSE [ok |-> TRUE, pub |-> k]

\* encryptNip44 succeeds only with a hex secret, a hex recipient and a
\* plaintext NIP-44 accepts; any other case throws ValidationError
encryptNip44Ok(fits, k, w) ==
    isHex64Secret(k) /\ isHex64Wallet(w) /\ fits

\* decryptNip44 inside the response handler uses the CURRENT session's keys:
\* a null session, a non-hex key or a payload under another conversation key
\* throws, and the handler's catch swallows it
decryptNip44Ok(msg, s) ==
    /\ s.live
    /\ isHex64Secret(s.secret)
    /\ isHex64Wallet(s.wallet)
    /\ msg.key = s.secret

----------------------------------------------------------------------------
(* NwcConnector: budget helpers *)

\* a reserveBudget that checks but does not take the amount
reserveBudgetCheckOnly(s, amt) ==
    IF ~(s.live /\ s.hasBudget) THEN [ok |-> TRUE, sess |-> s]
    ELSE IF amt > s.budget THEN [ok |-> FALSE, sess |-> s]
    ELSE [ok |-> TRUE, sess |-> s]

\* reserveBudget(amountSats): [ok, sess]
reserveBudget(s, amt) ==
    IF ~(s.live /\ s.hasBudget) THEN [ok |-> TRUE, sess |-> s]
    ELSE IF amt > s.budget THEN [ok |-> FALSE, sess |-> s]
    ELSE [ok |-> TRUE, sess |-> [s EXCEPT !.budget = s.budget - amt]]

\* a releaseBudget that gives nothing back
releaseBudgetNothing(s, amt) == s

\* releaseBudget(amountSats): acts on whatever this.session is now
releaseBudget(s, amt) ==
    IF ~(s.live /\ s.hasBudget) THEN s
    ELSE [s EXCEPT !.budget = s.budget + amt]

Budget(s) == IF s.live /\ s.hasBudget THEN s.budget ELSE 0

----------------------------------------------------------------------------
(* parseNwcUri: [ok, sess] *)

\* variant: the length of a relay URL is not checked
parseNwcUriAnyRelayLength(u) ==
    LET Reject == [ok |-> FALSE, sess |-> NoSession]
        caps == { u.caps[i].name : i \in 1..Len(u.caps) }
        hasBudget == u.budget.kind \notin {"absent", "empty"}
    IN  IF ~u.scheme THEN Reject
        ELSE IF u.wallet = "short" THEN Reject
        ELSE IF u.wallet \notin {"hex", "npub"} THEN Reject
        ELSE IF \E i \in 1..Len(u.relays) : ~u.relays[i].wss
        THEN Reject
        ELSE IF ~u.secret.has \/ ~isHex64Secret(u.secret.k) THEN Reject
        ELSE IF Len(u.caps) > MAX_CAPABILITIES_COUNT THEN Reject
        ELSE IF \E i \in 1..Len(u.caps) :
                   \/ u.caps[i].len > MAX_CAPABILITY_LENGTH
                   \/ u.caps[i].name \notin ALLOWED_CAPABILITIES
        THEN Reject
        ELSE IF hasBudget /\ u.budget.kind # "int" THEN Reject
        ELSE [ok |-> TRUE,
              sess |-> SessionOf(u.wallet, u.secret.k, caps, hasBudget,
                                 IF hasBudget THEN u.budget.n ELSE 0)]

\* the checks in the order of the code; every one throws ValidationError
parseNwcUri(u) ==
    LET Reject == [ok |-> FALSE, sess |-> NoSession]
        caps == { u.caps[i].name : i \in 1..Len(u.caps) }
        \* budget ? Number(budget) : undefined
        hasBudget == u.budget.kind \notin {"absent", "empty"}
    IN  IF ~u.scheme THEN Reject
        ELSE IF u.wallet = "short" THEN Reject
        ELSE IF u.wallet \notin {"hex", "npub"} THEN Reject
        ELSE IF \E i \in 1..Len(u.relays) :
                   ~u.relays[i].wss \/ u.relays[i].len > MAX_RELAY_URL_LENGTH
        THEN Reject
        ELSE IF ~u.secret.has \/ ~isHex64Secret(u.secret.k) THEN Reject
        ELSE IF Len(u.caps) > MAX_CAPABILITIES_COUNT THEN Reject
        ELSE IF \E i \in 1..Len(u.caps) :
                   \/ u.caps[i].len > MAX_CAPABILITY_LENGTH
                   \/ u.caps[i].name \notin ALLOWED_CAPABILITIES
        THEN Reject
        ELSE IF hasBudget /\ u.budget.kind # "int" THEN Reject
        ELSE [ok |-> TRUE,
              sess |-> SessionOf(u.wallet, u.secret.k, caps, hasBudget,
                                 IF hasBudget THEN u.budget.n ELSE 0)]

----------------------------------------------------------------------------
Init ==
    /\ connected = FALSE
    /\ session = NoSession
    /\ relay = FALSE
    /\ subs = {}
    /\ pubs = {}
    /\ reqs = [r \in ReqIds |-> FreeReq]
    /\ nextId = 1
    /\ epoch = 0
    /\ last = NoCall
    /\ wcall = NoWCall
    /\ heap = <<>>
    /\ caller = NoCaller
    /\ prov = NoProv
    /\ conn = NoConn
    /\ mcall = NoMCall
    /\ mgr = NoMgr
    /\ lst = {}
    /\ fired = NoFired

----------------------------------------------------------------------------
(* NwcConnector.connect / disconnect / setRelay / getAddress *)

Call(op, method, outcome, over, val) ==
    [op |-> op, outcome |-> outcome,
     capOk |-> (session.caps = {} \/ method \in session.caps),
     over |-> over,
     touched |-> (subs' # subs \/ pubs' # pubs),
     same |-> (Budget(session') = Budget(session)),
     val |-> val]

\* options?.session || (options?.uri ? parseNwcUri(options.uri) : null)
ConnectSession(opt) ==
    CASE opt.kind = "session" -> [ok |-> TRUE, err |-> "none", sess |-> opt.sess]
      [] opt.kind = "uri" ->
            IF parseNwcUri(opt.uri).ok
            THEN [ok |-> TRUE, err |-> "none", sess |-> parseNwcUri(opt.uri).sess]
            ELSE [ok |-> FALSE, err |-> "BadUri", sess |-> NoSession]
      [] OTHER -> [ok |-> FALSE, err |-> "MissingSession", sess |-> NoSession]

\* a connect that stores the session without raising the flag
ConnectSessionOnly(opt) ==
    LET c == ConnectSession(opt) IN
    /\ c.ok => epoch < MaxEpoch
    /\ IF c.ok
       THEN /\ session' = [c.sess EXCEPT !.sid = epoch + 1]
            /\ connected' = connected
            /\ epoch' = epoch + 1
       ELSE UNCHANGED <<session, connected, epoch>>
    /\ UNCHANGED <<relay, subs, pubs, reqs, nextId, wcall, otherVars>>
    /\ last' = Call("connect", "none", IF c.ok THEN "ok" ELSE c.err, FALSE, 0)

Connect(opt) ==
    LET c == ConnectSession(opt) IN
    /\ c.ok => epoch < MaxEpoch
    /\ IF c.ok
       THEN /\ session' = [c.sess EXCEPT !.sid = epoch + 1]
            /\ connected' = TRUE
            /\ epoch' = epoch + 1
       ELSE UNCHANGED <<session, connected, epoch>>
    /\ UNCHANGED <<relay, subs, pubs, reqs, nextId, wcall, otherVars>>
    /\ last' = Call("connect", "none", IF c.ok THEN "ok" ELSE c.err, FALSE, 0)

\* a disconnect that clears the session but not the flag
DisconnectKeepsFlag ==
    /\ connected' = connected
    /\ session' = NoSession
    /\ lst' = {}
    /\ fired' = [fired EXCEPT !.dead = @ \cup lst]
    /\ UNCHANGED <<relay, subs, pubs, reqs, nextId, epoch, wcall, memVars, webVars>>
    /\ last' = Call("disconnect", "none", "ok", FALSE, 0)

Disconnect ==
    /\ connected' = FALSE
    /\ session' = NoSession
    /\ lst' = {}
    /\ fired' = [fired EXCEPT !.dead = @ \cup lst]
    /\ UNCHANGED <<relay, subs, pubs, reqs, nextId, epoch, wcall, memVars, webVars>>
    /\ last' = Call("disconnect", "none", "ok", FALSE, 0)

SetRelay ==
    /\ relay' = TRUE
    /\ UNCHANGED <<connected, session, subs, pubs, reqs, nextId, epoch, wcall, otherVars>>
    /\ last' = Call("setRelay", "none", "ok", FALSE, 0)

GetAddress ==
    LET pk == derivePublicKey(session.secret)
        out == IF ~connected \/ ~session.live THEN "NotConnected"
               ELSE IF ~pk.ok THEN "KeyError" ELSE "ok"
    IN
    /\ UNCHANGED <<connected, session, relay, subs, pubs, reqs, nextId, epoch, wcall, otherVars>>
    /\ last' = Call("getAddress", "none", out, FALSE, IF out = "ok" THEN pk.pub ELSE 0)

----------------------------------------------------------------------------
(* NwcConnector.sendRequest / getInfo / payInvoice *)

\* sendRequest without the capability check
SendChecksNoCaps(method, p) ==
    IF ~connected \/ ~session.live THEN "NotConnected"
    ELSE IF ~relay THEN "NoRelay"
    ELSE IF method = "pay_invoice" /\ session.hasBudget
         THEN IF BadAmountParam(p) THEN "BadAmount"
              ELSE IF ~reserveBudget(session, p.amt).ok THEN "OverBudget"
              ELSE "pass"
    ELSE "pass"

\* the checks of sendRequest up to and including reserveBudget
SendChecks(method, p) ==
    IF ~connected \/ ~session.live THEN "NotConnected"
    ELSE IF ~relay THEN "NoRelay"
    ELSE IF session.caps # {} /\ method \notin session.caps THEN "CapNotGranted"
    ELSE IF method = "pay_invoice" /\ session.hasBudget
         THEN IF BadAmountParam(p) THEN "BadAmount"
              ELSE IF ~reserveBudget(session, p.amt).ok THEN "OverBudget"
              ELSE "pass"
    ELSE "pass"

\* reservedAmount
ReservedAmount(method, p) ==
    IF method = "pay_invoice" /\ session.hasBudget THEN p.amt ELSE 0

\* derivePublicKey and encryptNip44, which run after the reservation
SendCrypto(p, s) ==
    IF ~derivePublicKey(s.secret).ok THEN "KeyError"
    ELSE IF ~encryptNip44Ok(p.fits, s.secret, s.wallet) THEN "EncryptError"
    ELSE "pending"

OverBudgetCall(method, p) ==
    /\ method = "pay_invoice"
    /\ session.live /\ session.hasBudget
    /\ p.has /\ p.fin /\ p.amt > session.budget

DoSendRequest(op, method, p) ==
    LET chk == SendChecks(method, p)
        amt == ReservedAmount(method, p)
        sess1 == IF amt > 0 THEN reserveBudget(session, amt).sess ELSE session
        out == IF chk # "pass" THEN chk ELSE SendCrypto(p, session)
    IN
    /\ chk = "pass" => nextId <= MaxReq
    /\ IF chk # "pass"
       THEN UNCHANGED <<session, subs, pubs, reqs, nextId>>
       ELSE /\ session' = sess1
            /\ nextId' = nextId + 1
            /\ IF out = "pending"
               THEN \* subscribe, setTimeout, publish
                    /\ subs' = subs \cup {nextId}
                    /\ pubs' = pubs \cup {nextId}
                    /\ reqs' = [reqs EXCEPT ![nextId] =
                          [st |-> "pending", amt |-> amt, sid |-> session.sid,
                           timer |-> TRUE, cause |-> "none"]]
               ELSE \* thrown before the promise is built
                    /\ UNCHANGED <<subs, pubs>>
                    /\ reqs' = [reqs EXCEPT ![nextId] =
                          [st |-> "rejected", amt |-> amt, sid |-> session.sid,
                           timer |-> FALSE, cause |-> "encrypt"]]
    /\ UNCHANGED <<connected, relay, epoch, wcall, otherVars>>
    /\ last' = Call(op, method, out, OverBudgetCall(method, p), 0)

SendRequest(method, p) == DoSendRequest("sendRequest", method, p)

GetInfo ==
    DoSendRequest("getInfo", "get_info",
                  [has |-> FALSE, fin |-> FALSE, amt |-> 0, fits |-> TRUE])

\* payInvoice(invoice, amountSats): invOk is invoice.startsWith('ln'); p.has
\* is typeof amountSats === 'number', and only then is the amount validated
\* and copied into params
PayInvoice(invOk, p) ==
    IF ~invOk \/ (p.has /\ (~p.fin \/ p.amt <= 0))
    THEN /\ UNCHANGED <<connected, session, relay, subs, pubs, reqs, nextId, epoch, wcall, otherVars>>
         /\ last' = Call("payInvoice", "pay_invoice",
                         IF ~invOk THEN "BadInvoice" ELSE "BadAmount", FALSE, 0)
    ELSE DoSendRequest("payInvoice", "pay_invoice", p)

----------------------------------------------------------------------------
(* The three completion callbacks of a sendRequest promise *)

\* the promise of request r was built: its handler, timer and publish exist
Subscribed(r) == reqs[r].st # "free" /\ reqs[r].cause # "encrypt"

\* a response handler that does not compare the envelope's id with its own
OnResponseAnyId(r, msg) ==
    /\ Subscribed(r)
    /\ IF ~decryptNip44Ok(msg, session) \/ reqs[r].st # "pending"
       THEN UNCHANGED <<session, subs, reqs>>
       ELSE /\ subs' = subs \ {r}
            /\ IF msg.err
               THEN /\ session' = IF reqs[r].amt > 0
                                  THEN releaseBudget(session, reqs[r].amt)
                                  ELSE session
                    /\ reqs' = [reqs EXCEPT ![r].st = "rejected",
                                            ![r].timer = FALSE,
                                            ![r].cause = "nwcError"]
               ELSE /\ session' = session
                    /\ reqs' = [reqs EXCEPT ![r].st = "resolved",
                                            ![r].timer = FALSE,
                                            ![r].cause = "response"]
    /\ UNCHANGED <<connected, relay, pubs, nextId, epoch, last, wcall, otherVars>>

\* the response handler: decrypt, match the id, done = true, clearTimeout,
\* unsubscribe, and release the reservation when the wallet reports an error
OnResponse(r, msg) ==
    /\ Subscribed(r)
    /\ IF ~decryptNip44Ok(msg, session) \/ msg.id # r \/ reqs[r].st # "pending"
       THEN UNCHANGED <<session, subs, reqs>>
       ELSE /\ subs' = subs \ {r}
            /\ IF msg.err
               THEN /\ session' = IF reqs[r].amt > 0
                                  THEN releaseBudget(session, reqs[r].amt)
                                  ELSE session
                    /\ reqs' = [reqs EXCEPT ![r].st = "rejected",
                                            ![r].timer = FALSE,
                                            ![r].cause = "nwcError"]
               ELSE /\ session' = session
                    /\ reqs' = [reqs EXCEPT ![r].st = "resolved",
                                            ![r].timer = FALSE,
                                            ![r].cause = "response"]
    /\ UNCHANGED <<connected, relay, pubs, nextId, epoch, last, wcall, otherVars>>

\* a timer callback that rejects nothing
OnTimeoutSilent(r) ==
    /\ reqs[r].timer
    /\ reqs' = [reqs EXCEPT ![r].timer = FALSE]
    /\ UNCHANGED <<session, subs>>
    /\ UNCHANGED <<connected, relay, pubs, nextId, epoch, last, wcall, otherVars>>

\* the setTimeout callback
OnTimeout(r) ==
    /\ reqs[r].timer
    /\ IF reqs[r].st # "pending"
       THEN /\ reqs' = [reqs EXCEPT ![r].timer = FALSE]
            /\ UNCHANGED <<session, subs>>
       ELSE /\ subs' = subs \ {r}
            /\ session' = IF reqs[r].amt > 0
                          THEN releaseBudget(session, reqs[r].amt)
                          ELSE session
            /\ reqs' = [reqs EXCEPT ![r].st = "rejected",
                                    ![r].timer = FALSE,
                                    ![r].cause = "timeout"]
    /\ UNCHANGED <<connected, relay, pubs, nextId, epoch, last, wcall, otherVars>>

\* a publish rejection handler without the done flag
OnPublishFailNoDone(r) ==
    /\ Subscribed(r)
    /\ reqs[r].cause # "publish"
    /\ subs' = subs \ {r}
    /\ session' = IF reqs[r].amt > 0
                  THEN releaseBudget(session, reqs[r].amt)
                  ELSE session
    /\ reqs' = [reqs EXCEPT ![r].st = "rejected",
                            ![r].timer = FALSE,
                            ![r].cause = "publish"]
    /\ UNCHANGED <<connected, relay, pubs, nextId, epoch, last, wcall, otherVars>>

\* relay.publish(...).catch.  A publish that resolves runs no code, so a
\* publish that never rejects is the run in which this step never happens;
\* a rejection that arrives after the request is done changes nothing.
OnPublishFail(r) ==
    /\ Subscribed(r)
    /\ reqs[r].cause # "publish"
    /\ IF reqs[r].st # "pending"
       THEN UNCHANGED <<session, subs, reqs>>
       ELSE /\ subs' = subs \ {r}
            /\ session' = IF reqs[r].amt > 0
                          THEN releaseBudget(session, reqs[r].amt)
                          ELSE session
            /\ reqs' = [reqs EXCEPT ![r].st = "rejected",
                                    ![r].timer = FALSE,
                                    ![r].cause = "publish"]
    /\ UNCHANGED <<connected, relay, pubs, nextId, epoch, last, wcall, otherVars>>

----------------------------------------------------------------------------
Next ==
    \/ \E opt \in ConnectInputs : Connect(opt)
    \/ Disconnect
    \/ SetRelay
    \/ GetAddress
    \/ \E m \in Methods, p \in ParamInputs : SendRequest(m, p)
    \/ GetInfo
    \/ \E invOk \in BOOLEAN, p \in ParamInputs : PayInvoice(invOk, p)
    \/ \E r \in ReqIds, msg \in MsgInputs : OnResponse(r, msg)
    \/ \E r \in ReqIds : OnTimeout(r)
    \/ \E r \in ReqIds : OnPublishFail(r)

Spec == Init /\ [][Next]_vars

\* setTimeout callbacks always run: a pending request's timer eventually fires
LiveSpec == Spec /\ \A r \in ReqIds : WF_vars(OnTimeout(r))

----------------------------------------------------------------------------
(* Bookkeeping used by the properties *)

RECURSIVE SumAmt(_)
SumAmt(S) ==
    IF S = {} THEN 0
    ELSE LET r == CHOOSE x \in S : TRUE IN reqs[r].amt + SumAmt(S \ {r})

\* requests issued under the session that is connected now
Mine(r) == session.live /\ reqs[r].st # "free" /\ reqs[r].sid = session.sid

InFlightOrPaid == { r \in ReqIds : Mine(r) /\ reqs[r].st \in {"pending", "resolved"} }

\* pay_invoice requests of this session that reserved and were paid
Paid == { r \in ReqIds : Mine(r) /\ reqs[r].st = "resolved" /\ reqs[r].amt > 0 }

\* reservations taken and never given back: thrown between reserve and publish
Leaked == { r \in ReqIds : Mine(r) /\ reqs[r].cause = "encrypt" }

SendOps == {"sendRequest", "getInfo", "payInvoice"}

FailCauses == {"nwcError", "timeout", "publish"}

\* the step settles request r
Settles(r) == reqs[r].st = "pending" /\ reqs'[r].st # "pending"

----------------------------------------------------------------------------
----------------------------------------------------------------------------
\* C2: when a pay_invoice request that reserved A fails by a wallet error
\* response, by timeout or by a rejected publish while its session is still
\* the connected one, that step raises the remaining budget by exactly A; a
\* settled request never changes again and the budget of a session only ever
\* rises in the step that fails a pending request; so in a connector's first
\* session the remaining budget is always the grant minus
\* what is in flight, paid or was lost before the request was sent, and a
\* failed request holds nothing.
C2_Conservation ==
    (session.live /\ session.hasBudget /\ epoch = 1) =>
        session.budget = session.grant - SumAmt(InFlightOrPaid \cup Leaked)

C2_RefundStep ==
    /\ \A r \in ReqIds :
        /\ (Settles(r) /\ reqs'[r].cause \in FailCauses /\ Mine(r) /\ session.hasBudget)
              => session'.budget = session.budget + reqs[r].amt
        /\ reqs[r].st \in {"resolved", "rejected"} => reqs'[r] = reqs[r]
    /\ (session.live /\ session'.live /\ session'.sid = session.sid
          /\ Budget(session') > Budget(session))
          => \E r \in ReqIds :
                /\ Settles(r) /\ reqs'[r].cause \in FailCauses
                /\ Budget(session') = Budget(session) + reqs[r].amt

----------------------------------------------------------------------------
\* C3: a pay_invoice sendRequest that rejects after its reservation leaves
\* budgetSats as it was before the call: a call that throws returns with the
\* budget unchanged, and in a connector's first session the remaining budget
\* is the grant minus what is in flight or paid (a rejected request holds
\* nothing).
C3_RejectRestoresBudget ==
    /\ (last.op \in SendOps /\ ErrClass(last.outcome) # "none") => last.same
    /\ (session.live /\ session.hasBudget /\ epoch = 1)
          => session.budget = session.grant - SumAmt(InFlightOrPaid)

----------------------------------------------------------------------------
\* C4: what a session has paid is never given back to it: once a pay_invoice
\* of the connected session has resolved, the remaining budget of that session
\* rises only when another pending request of the same session fails and gets
\* its own reservation back, so the paid amount stays spent.
C4_Step ==
    (/\ Paid # {} /\ session.hasBudget
     /\ session'.live /\ session'.sid = session.sid
     /\ Budget(session') > Budget(session))
        => \E r \in ReqIds :
              /\ Mine(r) /\ Settles(r) /\ reqs'[r].cause \in FailCauses
              /\ Budget(session') = Budget(session) + reqs[r].amt

C4_PaidStaysSpent == [][C4_Step]_vars

----------------------------------------------------------------------------
\* C5: with a non-empty caps list a sendRequest for a method outside it is
\* rejected with UnsupportedFeatureError, nothing is subscribed or published
\* and the budget is unchanged (payInvoice may reject its own arguments
\* first); with caps absent or empty no call is refused for its method.
C5_CapabilityEnforced ==
    /\ (last.op \in SendOps /\ connected /\ ~last.capOk) =>
          /\ ~last.touched
          /\ last.same
          /\ last.op \in {"sendRequest", "getInfo"} =>
                /\ ErrClass(last.outcome) = "UnsupportedFeatureError"
                /\ relay => last.outcome = "CapNotGranted"
          /\ last.op = "payInvoice" =>
                last.outcome \in {"BadInvoice", "BadAmount", "NoRelay", "CapNotGranted"}
    /\ (last.op \in SendOps /\ last.capOk) => last.outcome # "CapNotGranted"
    /\ (last.op \in SendOps /\ session.live /\ session.caps = {}) => last.capOk

\* an ungranted pay_invoice was refused on a session that has budget to spend
C5_Witness ==
    /\ last.op = "sendRequest" /\ last.outcome = "CapNotGranted"
    /\ session.hasBudget /\ session.budget > 0
    /\ session.caps = {"get_info"}

----------------------------------------------------------------------------
\* C6: after disconnect() and until the next successful connect()
\* isConnected() is false, and getAddress, getInfo, sendRequest and
\* payInvoice reject with ValidationError without touching the relay; only a
\* successful connect() turns the flag on, and after it the calls pass the
\* connection check and getAddress answers for the newly supplied secret.
C6_State ==
    /\ last.op = "disconnect" => (~connected /\ ~session.live)
    /\ (last.op \in SendOps \cup {"getAddress"} /\ ~connected) =>
          /\ ErrClass(last.outcome) = "ValidationError"
          /\ ~last.touched
    /\ (last.op = "connect" /\ last.outcome = "ok") =>
          (connected /\ session.live /\ session.sid = epoch)
    /\ (last.op \in SendOps \cup {"getAddress"} /\ connected) =>
          /\ last.outcome # "NotConnected"
          /\ (last.op = "getAddress" /\ last.outcome = "ok") =>
                last.val = derivePublicKey(session.secret).pub

C6_Step ==
    /\ (~connected /\ connected') => (last'.op = "connect" /\ last'.outcome = "ok")
    /\ (session' # session /\ session'.live /\ session'.sid # session.sid)
          => (last'.op = "connect" /\ last'.outcome = "ok")

----------------------------------------------------------------------------
C7_SettleStep ==
    \A r \in ReqIds :
        /\ (reqs[r].st = "free" /\ reqs'[r].st = "rejected")
              => (reqs'[r].cause = "encrypt" /\ ErrClass(last'.outcome) = "ValidationError")
        /\ Settles(r) =>
              CASE reqs'[r].cause = "response" ->
                      /\ reqs'[r].st = "resolved"
                      /\ \E msg \in MsgInputs :
                            msg.id = r /\ ~msg.err /\ decryptNip44Ok(msg, session)
                [] reqs'[r].cause = "nwcError" ->
                      /\ reqs'[r].st = "rejected"
                      /\ \E msg \in MsgInputs :
                            msg.id = r /\ msg.err /\ decryptNip44Ok(msg, session)
                [] reqs'[r].cause \in {"publish", "timeout"} ->
                      reqs'[r].st = "rejected"
                [] OTHER -> FALSE

UriDefect(u) ==
    \/ ~u.scheme
    \/ u.wallet \notin {"hex", "npub"}
    \/ \E i \in 1..Len(u.relays) : ~u.relays[i].wss \/ u.relays[i].len > 2048
    \/ ~u.secret.has
    \/ u.secret.k = 0
    \/ Len(u.caps) > 32
    \/ \E i \in 1..Len(u.caps) :
          \/ u.caps[i].name \notin {"get_info", "pay_invoice", "make_invoice",
                                    "lookup_invoice", "list_transactions", "get_balance"}
          \/ u.caps[i].len > 64
    \/ u.budget.kind \in {"neg", "nan", "inf"}

DefectiveUris == { u \in UriInputs : UriDefect(u) }

\* C23: connect({uri}) with a URI that lacks the scheme, has a wallet pubkey
\* that is neither 64-hex nor npub, a relay that is not wss:// or is longer
\* than 2048 characters, a missing or non-64-hex secret, more than 32
\* capabilities, a capability outside the allowed set or longer than 64
\* characters, or a negative or non-finite budget, rejects with
\* ValidationError and leaves the connected flag and the session as they were:
\* a connect step either does so or is not a call with such a URI.
C23_PairingValidation ==
    [][last'.op = "connect" =>
          \/ /\ last'.outcome # "ok"
             /\ ErrClass(last'.outcome) = "ValidationError"
             /\ connected' = connected
             /\ session' = session
          \/ \A u \in DefectiveUris :
                ~Connect([kind |-> "uri", uri |-> u, sess |-> NoSession])]_vars

\* a connected connector with a live session refused a pairing URI
C23_Witness ==
    /\ last.op = "connect"
    /\ last.outcome = "BadUri"
    /\ connected
    /\ session.live

----------------------------------------------------------------------------
\* C31: in every reachable state the connected session's budgetSats lies
\* between 0 and the budget that session was connected with, and a step that
\* settles a request issued under an earlier session leaves the budget of the
\* session connected now unchanged.
C31_State ==
    (session.live /\ session.hasBudget) =>
        (0 <= session.budget /\ session.budget <= session.grant)

C31_Step ==
    \A r \in ReqIds :
        (Settles(r) /\ session.live /\ reqs[r].sid # session.sid)
            => session' = session

C31_BudgetBound == []C31_State /\ [][C31_Step]_vars

----------------------------------------------------------------------------
\* C32: a relay message on the response topic settles a pending request only
\* if it decrypts with the session keys and carries that request's id.  A
\* message with another id, or one that does not decrypt or parse, leaves
\* every request and the budget as they were; a request that a response
\* settles was settled by a message with its own id, whatever the order in
\* which the responses of concurrent requests arrive.
Matches(r, msg) == decryptNip44Ok(msg, session) /\ msg.id = r

C32_Delivery ==
    \/ (reqs' = reqs /\ session' = session /\ subs' = subs)
    \/ \A r \in ReqIds, msg \in MsgInputs :
          OnResponse(r, msg) =>
              /\ \A q \in ReqIds \ {r} : reqs'[q] = reqs[q]
              /\ Matches(r, msg)

C32_Settled ==
    \A r \in ReqIds :
        (reqs[r].st = "pending" /\ reqs'[r].cause \in {"response", "nwcError"})
            => \E msg \in MsgInputs : Matches(r, msg) /\ OnResponse(r, msg)

C32_ResponseCorrelation == [][C32_Delivery /\ C32_Settled]_vars

\* two requests were in flight together and the later one got its response
\* first
C32_Witness ==
    /\ reqs[1].st = "pending"
    /\ reqs[2].st = "resolved"
    /\ reqs[2].cause = "response"

----------------------------------------------------------------------------
\* C33: a request is settled at most once.  The step that settles it is one
\* of the three completion events (matching response, timeout, rejected
\* publish) and removes its response-topic subscription; a settled request
\* keeps its outcome, and a completion event that arrives for a request
\* already settled changes neither the budget nor the subscriptions, so the
\* reservation is released at most once and never after a successful
\* response.
Done(r) == reqs[r].st \in {"resolved", "rejected"}

CompletionEvent(r) ==
    \/ OnTimeout(r)
    \/ OnPublishFail(r)
    \/ \E msg \in MsgInputs : OnResponse(r, msg)

C33_Step ==
    \A r \in ReqIds :
        /\ Done(r) =>
              /\ reqs'[r].st = reqs[r].st
              /\ reqs'[r].cause = reqs[r].cause
              /\ reqs'[r].amt = reqs[r].amt
              /\ (session' # session \/ subs' # subs) => ~CompletionEvent(r)
        /\ Settles(r) =>
              /\ reqs'[r].cause \in {"response"} \cup FailCauses
              /\ r \notin subs'
              /\ reqs'[r].st = "resolved" => session' = session
              /\ Budget(session') \in {Budget(session), Budget(session) + reqs[r].amt}

C33_SettleOnce ==
    /\ [](\A r \in subs : reqs[r].st = "pending")
    /\ [][C33_Step]_vars

\* a paying request failed, its reservation came back once, and its
\* subscription is gone while another request is still waiting
C33_Witness ==
    /\ reqs[1].st = "rejected" /\ reqs[1].cause \in FailCauses
    /\ reqs[1].amt > 0 /\ Mine(1)
    /\ session.budget = session.grant
    /\ subs = {2}

----------------------------------------------------------------------------
\* C34: on a session with a numeric budget, a pay_invoice whose amountSats is
\* missing or is not a finite number greater than 0 is rejected before
\* anything is reserved, subscribed or published, and so is every pay_invoice
\* on a session whose budget is 0; this covers payInvoice(invoice) called
\* without an amount.  As stated, the rejection is always a ValidationError.
InvalidAmount(p) == ~p.has \/ ~p.fin \/ p.amt <= 0

PayCall(p) == SendRequest("pay_invoice", p) \/ PayInvoice(TRUE, p)

MustReject(p) ==
    /\ connected /\ session.live /\ session.hasBudget
    /\ InvalidAmount(p) \/ session.budget = 0

NothingSent ==
    /\ session' = session
    /\ subs' = subs /\ pubs' = pubs
    /\ reqs' = reqs /\ nextId' = nextId

\* the step is no pay_invoice call that had to be rejected
NoMustReject == \A p \in ParamInputs : ~(MustReject(p) /\ PayCall(p))

C34_InvalidAmountAsStated ==
    [][last'.op \in {"sendRequest", "payInvoice"} =>
         \/ (NothingSent /\ ErrClass(last'.outcome) = "ValidationError")
         \/ NoMustReject]_vars

\* C34, amended: the rejection is a ValidationError once a relay is set and
\* pay_invoice is among the granted capabilities; without a relay or without
\* the capability the call is rejected earlier, with an
\* UnsupportedFeatureError, and still nothing is reserved or published.
C34_InvalidAmountRejected ==
    [][last'.op \in {"sendRequest", "payInvoice"} =>
         \/ /\ NothingSent
            /\ ErrClass(last'.outcome) = "ValidationError"
            /\ last'.outcome \in {"BadAmount", "OverBudget"}
         \/ /\ NothingSent
            /\ ErrClass(last'.outcome) = "UnsupportedFeatureError"
            /\ ~(relay /\ last'.capOk)
         \/ NoMustReject]_vars

\* sendRequest refused a pay_invoice for its amount while budget remained
C34_Witness ==
    /\ last.op = "sendRequest" /\ last.outcome = "BadAmount"
    /\ session.live /\ session.hasBudget /\ session.budget > 0
    /\ relay

----------------------------------------------------------------------------
\* C35: in every reachable state isConnected() is true exactly when a session
\* is stored; disconnect() leaves no stored session (no client secret, wallet
\* key, capability or budget) and leaves the configured relay in place.
C35_FlagIffSession == connected <=> session.live

C35_DisconnectStep ==
    Disconnect =>
        /\ ~connected'
        /\ session' = NoSession
        /\ session'.secret = 0 /\ session'.caps = {} /\ ~session'.hasBudget
        /\ relay' = relay

C35_ConnectorState == []C35_FlagIffSession /\ [][C35_DisconnectStep]_vars

\* a session was dropped by disconnect() and the relay is still set
C35_Witness ==
    /\ last.op = "disconnect"
    /\ epoch >= 1
    /\ ~connected /\ ~session.live
    /\ relay

----------------------------------------------------------------------------
(***************************************************************************)
(* Part II : wallet derivation (sdks/wallets/src)                          *)
(*                                                                         *)
(* A JavaScript number n >= 0 is the triple <<l2, l1, l0>> of 16-bit limbs *)
(* with n = l2*2^32 + l1*2^16 + l0, so that indices at and above 2^31 and  *)
(* 2^32 are exact.  A byte array produced by a hash, an HMAC or a curve    *)
(* operation is the term that names its preimage: the primitives are       *)
(* taken to be injective, so two results are equal exactly when they were  *)
(* computed from equal inputs.                                             *)
(***************************************************************************)

MaxHi == 1      \* largest l2 limb of an index input
MaxLo == 1      \* largest l0 limb of an index input
NumRoots == 2   \* distinct 32-byte roots

Zero == <<0, 0, 0>>

\* Number.isInteger(index) && index >= 0 holds for kind "int" only
IntInputs ==
    { <<l2, l1, l0>> : l2 \in 0..MaxHi, l1 \in {0, 32768}, l0 \in 0..MaxLo }

IndexInputs ==
    { [kind |-> "int", n |-> n] : n \in IntInputs }
      \cup { [kind |-> k, n |-> Zero] : k \in {"absent", "neg", "frac", "nan", "inf"} }

\* u8: root instanceof Uint8Array; len: root.length; id: which bytes
RootInputs ==
    { [u8 |-> TRUE, len |-> 32, id |-> i] : i \in 1..NumRoots }
      \cup { [u8 |-> FALSE, len |-> 32, id |-> 1],
             [u8 |-> TRUE, len |-> 31, id |-> 1],
             [u8 |-> TRUE, len |-> 33, id |-> 1] }

Seg(ds, h) == [digits |-> ds, hard |-> h]

\* a path string: what it starts with and its '/'-separated segments
Path(segs) == [start |-> "m/", segs |-> segs]

PathInputs ==
    { [start |-> "", segs |-> <<>>],                              \* ''
      [start |-> "x/", segs |-> << Seg(<<0>>, TRUE) >>],          \* "x/0'"
      Path(<< Seg(<<4, 4>>, TRUE), Seg(<<0>>, FALSE) >>),         \* "m/44'/0"
      Path(<< Seg(<<4, 4>>, TRUE), Seg(<<>>, TRUE) >>),           \* "m/44'/'"
      Path(<< Seg(<<4, 4>>, TRUE), Seg(<<5, 0, 1>>, TRUE), Seg(<<7>>, TRUE) >>) }

\* SolDerivationOptions; has = FALSE is a call without opts
OptsInputs ==
    { [has |-> FALSE, index |-> [kind |-> "absent", n |-> Zero],
       preset |-> "absent", path |-> [start |-> "", segs |-> <<>>]] }
      \cup { [has |-> TRUE, index |-> ix, preset |-> pr,
              path |-> [start |-> "", segs |-> <<>>]] :
                ix \in IndexInputs, pr \in {"absent", "phantom", "solflare"} }
      \cup { [has |-> TRUE, index |-> ix, preset |-> "custom", path |-> pa] :
                ix \in { x \in IndexInputs : x.kind \in {"absent", "nan"} },
                pa \in PathInputs }
      \cup { [has |-> TRUE, index |-> [kind |-> "absent", n |-> Zero],
              preset |-> "ledger", path |-> [start |-> "", segs |-> <<>>]] }

\* `index: number = 0` and `opts?.index ?? 0`
DefaultIndex(ix) == IF ix.kind = "absent" THEN [kind |-> "int", n |-> Zero] ELSE ix

\* variant: a root is also rejected for the value of its bytes
RootOkRejectsBytes(root) == root.u8 /\ root.len = 32 /\ root.id # 1

RootOk(root) == root.u8 /\ root.len = 32

IndexOk(ix) == ix.kind = "int"

\* n divided by ten: quotient limbs and remainder
DivMod10(n) ==
    LET t1 == (n[1] % 10) * 65536 + n[2]
        t0 == (t1 % 10) * 65536 + n[3]
    IN  [q |-> << n[1] \div 10, t1 \div 10, t0 \div 10 >>, r |-> t0 % 10]

RECURSIVE DecimalDigits(_)
DecimalDigits(n) ==
    IF n = Zero THEN <<>>
    ELSE Append(DecimalDigits(DivMod10(n).q), DivMod10(n).r)

\* `${index}` : the decimal digits of a non-negative integer
NumberToString(n) == IF n = Zero THEN <<0>> ELSE DecimalDigits(n)

\* n * 10 + d on limbs
MulAdd10(n, d) ==
    LET t0 == n[3] * 10 + d
        t1 == n[2] * 10 + (t0 \div 65536)
    IN  << n[1] * 10 + (t1 \div 65536), t1 % 65536, t0 % 65536 >>

RECURSIVE StringToNumber(_)
\* Number(numStr) of a string of decimal digits
StringToNumber(ds) ==
    IF ds = <<>> THEN Zero
    ELSE MulAdd10(StringToNumber(SubSeq(ds, 1, Len(ds) - 1)), ds[Len(ds)])

\* the four big-endian bytes of the low 32 bits of n
ser32(n) == << n[2] \div 256, n[2] % 256, n[3] \div 256, n[3] % 256 >>

\* slip10.ts: HARDENED = 0x80000000
HARDENED == <<0, 32768, 0>>

\* (num | HARDENED) >>> 0 : ToInt32 keeps the low 32 bits, bit 31 is set
OrHardened(num) == << 0, (num[2] % HARDENED[2]) + HARDENED[2], num[3] >>

Throw(msg, ops) ==
    [status |-> "error", err |-> msg, ops |-> ops,
     address |-> <<>>, publicKey |-> <<>>, privateKey |-> <<>>]

Return(addr, pub, priv, ops) ==
    [status |-> "ok", err |-> "", ops |-> ops,
     address |-> addr, publicKey |-> pub, privateKey |-> priv]

----------------------------------------------------------------------------
(* @scure/bip32 HDKey as the wallet code uses it.  A node is the root it   *)
(* was seeded with and the ser32 child numbers applied so far.             *)

fromMasterSeed(root) == << root.id, <<>> >>

RECURSIVE HDKeyDerive(_, _)
\* hdkey.derive(path): a child number must be below 2^31 before the
\* hardened offset is added, otherwise derive throws
HDKeyDerive(node, segs) ==
    IF segs = <<>> THEN [ok |-> TRUE, err |-> "", node |-> node]
    ELSE LET c == Head(segs)
             idx == StringToNumber(c.digits)
         IN  IF c.digits = <<>>
             THEN [ok |-> FALSE, err |-> "Invalid child index", node |-> node]
             ELSE IF idx[1] > 0 \/ idx[2] >= 32768
             THEN [ok |-> FALSE, err |-> "Invalid index", node |-> node]
             ELSE HDKeyDerive(
                     << node[1],
                        Append(node[2],
                               ser32(IF c.hard THEN << 0, idx[2] + 32768, idx[3] >>
                                               ELSE idx)) >>,
                     Tail(segs))

RECURSIVE Concat(_)
Concat(seqs) == IF seqs = <<>> THEN <<>> ELSE Head(seqs) \o Concat(Tail(seqs))

RECURSIVE SumSeq(_)
SumSeq(bytes) == IF bytes = <<>> THEN 0 ELSE Head(bytes) + SumSeq(Tail(bytes))

\* Keccak-256 cannot be computed here: a fixed function from byte sequences
\* to 32 bytes stands for it.  What is checked is what the code does with
\* the digest, never the digest's value.
keccak_256(data) ==
    [j \in 1..32 |->
        ((SumSeq(data) + 1) * (j + 1) * 37 + j * j * 11
           + (IF data = <<>> THEN 0 ELSE data[(j % Len(data)) + 1]) * 53) % 256]

\* Point.fromHex(publicKey).toRawBytes(false).slice(1): the x||y bytes of a
\* node's public key, named by the node's root and child numbers
uncompressedXY(node) == << node[1] >> \o Concat(node[2])

\* a hex character is its value and whether it is upper case; a string of
\* them may carry the prefix '0x'
HexChar(v) == [v |-> v, up |-> FALSE]

\* byte.toString(16).padStart(2, '0') for every byte
bytesToHex(bytes) ==
    Concat([i \in 1..Len(bytes) |->
               << HexChar(bytes[i] \div 16), HexChar(bytes[i] % 16) >>])

\* TextEncoder().encode of hex characters: their ASCII codes
hexCharCodes(chars) ==
    [i \in 1..Len(chars) |->
        IF chars[i].v < 10 THEN 48 + chars[i].v
        ELSE IF chars[i].up THEN 55 + chars[i].v ELSE 87 + chars[i].v]

\* variant: the low nibble of each hash byte decides the first of its two
\* characters
toChecksumAddressLowNibbleFirst(address) ==
    LET addr == [i \in 1..Len(address.chars) |-> HexChar(address.chars[i].v)]
        hash == keccak_256(hexCharCodes(addr))
    IN  [pre |-> "0x",
         chars |-> [k \in 1..Len(addr) |->
             LET i == k - 1
                 byte == hash[(i \div 2) + 1]
                 nibble == IF i % 2 = 0 THEN byte % 16 ELSE byte \div 16
             IN  IF nibble >= 8
                 THEN [v |-> addr[k].v, up |-> addr[k].v >= 10]
                 ELSE addr[k]]]

\* eth.ts toChecksumAddress: lower-case the address and drop '0x', hash the
\* characters, and upper-case character i when nibble i of the hash is >= 8
\* (toUpperCase leaves a digit as it is)
toChecksumAddress(address) ==
    LET addr == [i \in 1..Len(address.chars) |-> HexChar(address.chars[i].v)]
        hash == keccak_256(hexCharCodes(addr))
    IN  [pre |-> "0x",
         chars |-> [k \in 1..Len(addr) |->
             LET i == k - 1
                 byte == hash[(i \div 2) + 1]
                 nibble == IF i % 2 = 0 THEN byte \div 16 ELSE byte % 16
             IN  IF nibble >= 8
                 THEN [v |-> addr[k].v, up |-> addr[k].v >= 10]
                 ELSE addr[k]]]

\* '0x' + hex of the last 20 bytes of keccak_256(pubkey), checksummed
ethAddressOf(node) ==
    LET pubkey == uncompressedXY(node)
        hash == keccak_256(pubkey)
        addressBytes == SubSeq(hash, 13, 32)
        addressHex == bytesToHex(addressBytes)
    IN  toChecksumAddress([pre |-> "0x", chars |-> addressHex])

\* the BIP44 path of eth.ts, m/44'/60'/0'/0/${index}
EthPath(n) ==
    Path(<< Seg(<<4, 4>>, TRUE), Seg(<<6, 0>>, TRUE), Seg(<<0>>, TRUE),
            Seg(<<0>>, FALSE), Seg(NumberToString(n), FALSE) >>)

\* the BIP84 path of btc.ts, m/84'/0'/0'/0/${index}
BtcPath(n) ==
    Path(<< Seg(<<8, 4>>, TRUE), Seg(<<0>>, TRUE), Seg(<<0>>, TRUE),
            Seg(<<0>>, FALSE), Seg(NumberToString(n), FALSE) >>)

\* variant: the index is validated only after the HD key was created
deriveEthAddressLateCheck(root, ix) ==
    LET index == DefaultIndex(ix)
    IN  IF ~RootOk(root) THEN Throw("ETH root must be 32 bytes", <<>>)
        ELSE IF ~IndexOk(index)
        THEN Throw("index must be a non-negative integer", << "HDKey.fromMasterSeed" >>)
        ELSE
        LET hdkey == fromMasterSeed(root)
            derived == HDKeyDerive(hdkey, EthPath(index.n).segs)
        IN  IF ~derived.ok
            THEN Throw(derived.err, << "HDKey.fromMasterSeed", "HDKey.derive" >>)
            ELSE Return(ethAddressOf(derived.node), << "pub", derived.node >>, <<>>,
                        << "HDKey.fromMasterSeed", "HDKey.derive", "Point.fromHex",
                           "keccak_256", "keccak_256" >>)

deriveEthAddress(root, ix) ==
    LET index == DefaultIndex(ix)
    IN  IF ~RootOk(root) THEN Throw("ETH root must be 32 bytes", <<>>)
        ELSE IF ~IndexOk(index) THEN Throw("index must be a non-negative integer", <<>>)
        ELSE
        LET hdkey == fromMasterSeed(root)
            derived == HDKeyDerive(hdkey, EthPath(index.n).segs)
        IN  IF ~derived.ok
            THEN Throw(derived.err, << "HDKey.fromMasterSeed", "HDKey.derive" >>)
            ELSE Return(ethAddressOf(derived.node), << "pub", derived.node >>, <<>>,
                        << "HDKey.fromMasterSeed", "HDKey.derive", "Point.fromHex",
                           "keccak_256", "keccak_256" >>)

deriveEthSigningKey(root, ix) ==
    LET index == DefaultIndex(ix)
    IN  IF ~RootOk(root) THEN Throw("ETH root must be 32 bytes", <<>>)
        ELSE IF ~IndexOk(index) THEN Throw("index must be a non-negative integer", <<>>)
        ELSE
        LET hdkey == fromMasterSeed(root)
            derived == HDKeyDerive(hdkey, EthPath(index.n).segs)
        IN  IF ~derived.ok
            THEN Throw(derived.err, << "HDKey.fromMasterSeed", "HDKey.derive" >>)
            ELSE Return(ethAddressOf(derived.node), << "pub", derived.node >>,
                        << "priv", derived.node >>,
                        << "HDKey.fromMasterSeed", "HDKey.derive", "Point.fromHex",
                           "keccak_256", "keccak_256" >>)

\* btc.ts encodeBech32: the witness version, then the program's 5-bit words,
\* under the human-readable part; bech32 for version 0, bech32m otherwise
encodeBech32(witnessVersion, witnessProgram, hrp) ==
    [hrp |-> hrp, version |-> witnessVersion, program |-> witnessProgram,
     encoding |-> IF witnessVersion = 0 THEN "bech32" ELSE "bech32m"]

\* `type: 'segwit' | 'taproot' = 'segwit'`
TypeInputs == {"absent", "segwit", "taproot"}

DefaultType(type) == IF type = "absent" THEN "segwit" ELSE type

\* m/${purpose}'/0'/0'/0/${index} with purpose 86 for taproot, 84 otherwise
BtcPathOf(type, n) ==
    IF type = "taproot"
    THEN Path(<< Seg(<<8, 6>>, TRUE) >> \o Tail(BtcPath(n).segs))
    ELSE BtcPath(n)

\* variant: a taproot call gets a witness-version-1 address over the same
\* public-key hash
deriveBtcAddressTaprootPlaceholder(root, ix, ty) ==
    LET index == DefaultIndex(ix)
        type == DefaultType(ty)
    IN  IF ~RootOk(root) THEN Throw("BTC root must be 32 bytes", <<>>)
        ELSE IF ~IndexOk(index) THEN Throw("index must be a non-negative integer", <<>>)
        ELSE
        LET hdkey == fromMasterSeed(root)
            derived == HDKeyDerive(hdkey, BtcPathOf(type, index.n).segs)
            pubkey == << "pub", derived.node >>
            witnessProgram == << "hash160", pubkey >>
        IN  IF ~derived.ok
            THEN Throw(derived.err, << "HDKey.fromMasterSeed", "HDKey.derive" >>)
            ELSE Return(encodeBech32(IF type = "segwit" THEN 0 ELSE 1, witnessProgram, "bc"),
                        pubkey, <<>>,
                        << "HDKey.fromMasterSeed", "HDKey.derive", "hash160" >>)

deriveBtcAddress(root, ix, ty) ==
    LET index == DefaultIndex(ix)
        type == DefaultType(ty)
    IN  IF ~RootOk(root) THEN Throw("BTC root must be 32 bytes", <<>>)
        ELSE IF ~IndexOk(index) THEN Throw("index must be a non-negative integer", <<>>)
        ELSE
        LET hdkey == fromMasterSeed(root)
            derived == HDKeyDerive(hdkey, BtcPathOf(type, index.n).segs)
            pubkey == << "pub", derived.node >>
            witnessProgram == << "hash160", pubkey >>
        IN  IF ~derived.ok
            THEN Throw(derived.err, << "HDKey.fromMasterSeed", "HDKey.derive" >>)
            ELSE IF type = "segwit"
            THEN Return(encodeBech32(0, witnessProgram, "bc"), pubkey, <<>>,
                        << "HDKey.fromMasterSeed", "HDKey.derive", "hash160" >>)
            ELSE Throw("Taproot (P2TR) not supported yet",
                       << "HDKey.fromMasterSeed", "HDKey.derive" >>)

\* variant: the signing key is derived on the BIP44 path m/44'/0'/0'/0/${index}
deriveBtcSigningKeyBip44(root, ix, ty) ==
    LET index == DefaultIndex(ix)
        type == DefaultType(ty)
    IN  IF ~RootOk(root) THEN Throw("BTC root must be 32 bytes", <<>>)
        ELSE IF ~IndexOk(index) THEN Throw("index must be a non-negative integer", <<>>)
        ELSE
        LET hdkey == fromMasterSeed(root)
            derived == HDKeyDerive(hdkey,
                          << Seg(<<4, 4>>, TRUE) >> \o Tail(BtcPath(index.n).segs))
            pubkey == << "pub", derived.node >>
            witnessProgram == << "hash160", pubkey >>
        IN  IF ~derived.ok
            THEN Throw(derived.err, << "HDKey.fromMasterSeed", "HDKey.derive" >>)
            ELSE IF type = "segwit"
            THEN Return(encodeBech32(0, witnessProgram, "bc"), pubkey,
                        << "priv", derived.node >>,
                        << "HDKey.fromMasterSeed", "HDKey.derive", "hash160" >>)
            ELSE Throw("Taproot (P2TR) not supported yet",
                       << "HDKey.fromMasterSeed", "HDKey.derive" >>)

deriveBtcSigningKey(root, ix, ty) ==
    LET index == DefaultIndex(ix)
        type == DefaultType(ty)
    IN  IF ~RootOk(root) THEN Throw("BTC root must be 32 bytes", <<>>)
        ELSE IF ~IndexOk(index) THEN Throw("index must be a non-negative integer", <<>>)
        ELSE
        LET hdkey == fromMasterSeed(root)
            derived == HDKeyDerive(hdkey, BtcPathOf(type, index.n).segs)
            pubkey == << "pub", derived.node >>
            witnessProgram == << "hash160", pubkey >>
        IN  IF ~derived.ok
            THEN Throw(derived.err, << "HDKey.fromMasterSeed", "HDKey.derive" >>)
            ELSE IF type = "segwit"
            THEN Return(encodeBech32(0, witnessProgram, "bc"), pubkey,
                        << "priv", derived.node >>,
                        << "HDKey.fromMasterSeed", "HDKey.derive", "hash160" >>)
            ELSE Throw("Taproot (P2TR) not supported yet",
                       << "HDKey.fromMasterSeed", "HDKey.derive" >>)

----------------------------------------------------------------------------
(* sol.ts: the legacy Solana derivation *)

\* index 0 uses the root itself; otherwise sha512(root || setUint32(index)),
\* where setUint32 stores index modulo 2^32
deriveSolSeed(root, n) ==
    IF n = Zero THEN << "root", root.id, <<>> >>
    ELSE << "sha512", root.id, ser32(n) >>

deriveSolSeedOps(n) == IF n = Zero THEN <<>> ELSE << "sha512" >>

deriveSolAddress(root, ix) ==
    LET index == DefaultIndex(ix)
    IN  IF ~RootOk(root) THEN Throw("SOL root must be 32 bytes", <<>>)
        ELSE IF ~IndexOk(index) THEN Throw("index must be a non-negative integer", <<>>)
        ELSE
        LET seed == deriveSolSeed(root, index.n)
            publicKey == << "ed25519pub", seed >>
        IN  Return(<< "bs58", publicKey >>, publicKey, <<>>,
                   deriveSolSeedOps(index.n) \o << "ed.getPublicKeyAsync" >>)

deriveSolSigningKey(root, ix) ==
    LET index == DefaultIndex(ix)
    IN  IF ~RootOk(root) THEN Throw("SOL root must be 32 bytes", <<>>)
        ELSE IF ~IndexOk(index) THEN Throw("index must be a non-negative integer", <<>>)
        ELSE
        LET seed == deriveSolSeed(root, index.n)
            publicKey == << "ed25519pub", seed >>
        IN  Return(<< "bs58", publicKey >>, publicKey, seed,
                   deriveSolSeedOps(index.n) \o << "ed.getPublicKeyAsync" >>)

----------------------------------------------------------------------------
(* slip10.ts and the SLIP-10 Solana derivation *)

RECURSIVE parseSegments(_)
parseSegments(segs) ==
    IF segs = <<>> THEN [ok |-> TRUE, err |-> "", out |-> <<>>]
    ELSE LET seg == Head(segs)
             rest == parseSegments(Tail(segs))
         IN  IF ~seg.hard
             THEN [ok |-> FALSE, err |-> "ed25519 only supports hardened segments",
                   out |-> <<>>]
             ELSE IF seg.digits = <<>>
             THEN [ok |-> FALSE, err |-> "invalid path segment", out |-> <<>>]
             ELSE IF ~rest.ok THEN rest
             ELSE [ok |-> TRUE, err |-> "",
                   out |-> << OrHardened(StringToNumber(seg.digits)) >> \o rest.out]

parseSlip10Path(path) ==
    IF path.start = ""
    THEN [ok |-> FALSE, err |-> "path must be non-empty string", out |-> <<>>]
    ELSE IF path.start # "m/"
    THEN [ok |-> FALSE, err |-> "path must start with m/", out |-> <<>>]
    ELSE parseSegments(path.segs)

\* HMAC-SHA512 as the term naming its key and data
hmacSha512(key, data) == << "hmacSha512", key, data >>

\* key = I.slice(0, 32), chainCode = I.slice(32)
splitI(I) == [key |-> << "slice0_32", I >>, chainCode |-> << "slice32", I >>]

RECURSIVE slip10LoopFromKey(_, _)
\* variant: the child HMAC is keyed with the parent key and hashes the
\* chain code
slip10LoopFromKey(node, path) ==
    IF path = <<>> THEN node
    ELSE LET data == << "data", 0, node.chainCode, ser32(Head(path)) >>
         IN  slip10LoopFromKey(splitI(hmacSha512(node.key, data)), Tail(path))

RECURSIVE slip10Loop(_, _)
\* the for loop of deriveSlip10Ed25519 from the node it has reached:
\* data = 0x00 || key || ser32(idx), I = HMAC-SHA512(chainCode, data)
slip10Loop(node, path) ==
    IF path = <<>> THEN node
    ELSE LET data == << "data", 0, node.key, ser32(Head(path)) >>
         IN  slip10Loop(splitI(hmacSha512(node.chainCode, data)), Tail(path))

\* the master node, then the loop; ops: one HMAC for the master and one per
\* path element
deriveSlip10Ed25519(seed, path) ==
    LET masterKey == << "ed25519 seed" >>
        I == hmacSha512(masterKey, << "seed", seed.id >>)
        node == slip10Loop(splitI(I), path)
    IN  [key |-> node.key, chainCode |-> node.chainCode,
         ops |-> [i \in 1..(Len(path) + 1) |-> "hmacSha512"]]

phantomPath(n) ==
    Path(<< Seg(<<4, 4>>, TRUE), Seg(<<5, 0, 1>>, TRUE),
            Seg(NumberToString(n), TRUE), Seg(<<0>>, TRUE) >>)

solflarePath(n) ==
    Path(<< Seg(<<4, 4>>, TRUE), Seg(<<5, 0, 1>>, TRUE), Seg(NumberToString(n), TRUE) >>)

buildPath(opts) ==
    LET index == DefaultIndex(opts.index)
        preset == IF opts.preset = "absent" THEN "phantom" ELSE opts.preset
        none == [start |-> "", segs |-> <<>>]
    IN  IF ~IndexOk(index)
        THEN [ok |-> FALSE, err |-> "index must be a non-negative integer", path |-> none]
        ELSE IF preset = "phantom"
        THEN [ok |-> TRUE, err |-> "", path |-> phantomPath(index.n)]
        ELSE IF preset = "solflare"
        THEN [ok |-> TRUE, err |-> "", path |-> solflarePath(index.n)]
        ELSE IF preset = "custom"
        THEN IF opts.path.start = ""
             THEN [ok |-> FALSE, err |-> "custom preset requires opts.path", path |-> none]
             ELSE [ok |-> TRUE, err |-> "", path |-> opts.path]
        ELSE [ok |-> FALSE, err |-> "Unsupported preset", path |-> none]

deriveSolAddressSlip10(root, opts) ==
    IF ~RootOk(root) THEN Throw("SOL root must be 32 bytes", <<>>)
    ELSE
    LET pathStr == buildPath(opts)
        path == parseSlip10Path(pathStr.path)
        node == deriveSlip10Ed25519(root, path.out)
        publicKey == << "ed25519pub", node.key >>
    IN  IF ~pathStr.ok THEN Throw(pathStr.err, <<>>)
        ELSE IF ~path.ok THEN Throw(path.err, <<>>)
        ELSE Return(<< "bs58", publicKey >>, publicKey, <<>>,
                    node.ops \o << "ed.getPublicKeyAsync" >>)

deriveSolSigningKeySlip10(root, opts) ==
    IF ~RootOk(root) THEN Throw("SOL root must be 32 bytes", <<>>)
    ELSE
    LET pathStr == buildPath(opts)
        path == parseSlip10Path(pathStr.path)
        node == deriveSlip10Ed25519(root, path.out)
        publicKey == << "ed25519pub", node.key >>
    IN  IF ~pathStr.ok THEN Throw(pathStr.err, <<>>)
        ELSE IF ~path.ok THEN Throw(path.err, <<>>)
        ELSE Return(<< "bs58", publicKey >>, publicKey, node.key,
                    node.ops \o << "ed.getPublicKeyAsync" >>)

----------------------------------------------------------------------------
(* One action per exported derivation function: the call and what it       *)
(* returned or threw.                                                      *)

WCall(fn, root, arg, res) ==
    [fn |-> fn, root |-> root, arg |-> arg, type |-> "absent", res |-> res]

DeriveEthAddress(root, ix) ==
    /\ wcall' = WCall("deriveEthAddress", root, ix, deriveEthAddress(root, ix))
    /\ UNCHANGED <<nwcVars, otherVars>>

DeriveEthSigningKey(root, ix) ==
    /\ wcall' = WCall("deriveEthSigningKey", root, ix, deriveEthSigningKey(root, ix))
    /\ UNCHANGED <<nwcVars, otherVars>>

DeriveBtcAddress(root, ix, type) ==
    /\ wcall' = [WCall("deriveBtcAddress", root, ix, deriveBtcAddress(root, ix, type))
                    EXCEPT !.type = type]
    /\ UNCHANGED <<nwcVars, otherVars>>

DeriveBtcSigningKey(root, ix, type) ==
    /\ wcall' = [WCall("deriveBtcSigningKey", root, ix, deriveBtcSigningKey(root, ix, type))
                    EXCEPT !.type = type]
    /\ UNCHANGED <<nwcVars, otherVars>>

DeriveSolAddress(root, ix) ==
    /\ wcall' = WCall("deriveSolAddress", root, ix, deriveSolAddress(root, ix))
    /\ UNCHANGED <<nwcVars, otherVars>>

DeriveSolSigningKey(root, ix) ==
    /\ wcall' = WCall("deriveSolSigningKey", root, ix, deriveSolSigningKey(root, ix))
    /\ UNCHANGED <<nwcVars, otherVars>>

DeriveSolAddressSlip10(root, opts) ==
    /\ wcall' = WCall("deriveSolAddressSlip10", root, opts, deriveSolAddressSlip10(root, opts))
    /\ UNCHANGED <<nwcVars, otherVars>>

DeriveSolSigningKeySlip10(root, opts) ==
    /\ wcall' = WCall("deriveSolSigningKeySlip10", root, opts, deriveSolSigningKeySlip10(root, opts))
    /\ UNCHANGED <<nwcVars, otherVars>>

\* number[] arguments of deriveSlip10Ed25519: uint32 values with the
\* hardened bit clear or set
NumPathInputs ==
    LET U == { <<0, l1, l0>> : l1 \in {0, HARDENED[2]}, l0 \in 0..MaxLo }
    IN  {<<>>} \cup { <<a>> : a \in U } \cup { <<a, b>> : a \in U, b \in U }

\* the exported deriveSlip10Ed25519 called directly with a numeric path:
\* its seed check, then the derivation
slip10Call(seed, path) ==
    IF ~seed.u8 \/ seed.len = 0
    THEN Throw("seed must be Uint8Array", <<>>)
    ELSE Return(<<>>, <<>>, deriveSlip10Ed25519(seed, path).key,
                deriveSlip10Ed25519(seed, path).ops)

DeriveSlip10Ed25519(seed, path) ==
    /\ wcall' = WCall("deriveSlip10Ed25519", seed, path, slip10Call(seed, path))
    /\ UNCHANGED <<nwcVars, otherVars>>

NextWallet ==
    \/ \E seed \in RootInputs, path \in NumPathInputs : DeriveSlip10Ed25519(seed, path)
    \/ \E root \in RootInputs, ix \in IndexInputs : DeriveEthAddress(root, ix)
    \/ \E root \in RootInputs, ix \in IndexInputs : DeriveEthSigningKey(root, ix)
    \/ \E root \in RootInputs, ix \in IndexInputs, type \in TypeInputs :
          DeriveBtcAddress(root, ix, type)
    \/ \E root \in RootInputs, ix \in IndexInputs, type \in TypeInputs :
          DeriveBtcSigningKey(root, ix, type)
    \/ \E root \in RootInputs, ix \in IndexInputs : DeriveSolAddress(root, ix)
    \/ \E root \in RootInputs, ix \in IndexInputs : DeriveSolSigningKey(root, ix)
    \/ \E root \in RootInputs, opts \in OptsInputs : DeriveSolAddressSlip10(root, opts)
    \/ \E root \in RootInputs, opts \in OptsInputs : DeriveSolSigningKeySlip10(root, opts)

SpecWallet == Init /\ [][NextWallet]_vars

----------------------------------------------------------------------------
(* Properties of the wallet derivations *)

AddressFns ==
    {"deriveEthAddress", "deriveBtcAddress", "deriveSolAddress", "deriveSolAddressSlip10"}

SigningFns ==
    {"deriveEthSigningKey", "deriveBtcSigningKey", "deriveSolSigningKey",
     "deriveSolSigningKeySlip10"}

Slip10Fns == {"deriveSolAddressSlip10", "deriveSolSigningKeySlip10"}

\* the index the recorded call was given
CallIndex == IF wcall.fn \in Slip10Fns THEN wcall.arg.index ELSE wcall.arg

\* the recorded call's argument with its index replaced by the integer n
CallArgWith(n) ==
    IF wcall.fn \in Slip10Fns
    THEN [wcall.arg EXCEPT !.index = [kind |-> "int", n |-> n]]
    ELSE [kind |-> "int", n |-> n]

\* deriveAddress of the chain of fn, applied to (root, arg)
AddressOf(fn, root, arg) ==
    CASE fn \in {"deriveEthAddress", "deriveEthSigningKey"} -> deriveEthAddress(root, arg)
      [] fn \in {"deriveBtcAddress", "deriveBtcSigningKey"} -> deriveBtcAddress(root, arg, wcall.type)
      [] fn \in {"deriveSolAddress", "deriveSolSigningKey"} -> deriveSolAddress(root, arg)
      [] fn \in Slip10Fns -> deriveSolAddressSlip10(root, arg)

\* C8: in every derivation (ETH, BTC, legacy SOL, SLIP-10 SOL) a root that is
\* not a Uint8Array of 32 bytes, or an index that is negative, fractional,
\* NaN or infinite, makes the call throw before any HD-key, HMAC, hash or
\* curve operation has run, and nothing is returned.
C8_ValidationFirst ==
    IF wcall.fn \notin (AddressFns \cup SigningFns) THEN TRUE
    ELSE (~RootOk(wcall.root) \/ CallIndex.kind \in {"neg", "frac", "nan", "inf"})
            => /\ wcall.res.status = "error"
               /\ wcall.res.ops = <<>>
               /\ wcall.res.address = <<>>
               /\ wcall.res.publicKey = <<>>
               /\ wcall.res.privateKey = <<>>

\* a SLIP-10 signing-key call with a valid root and a NaN index was rejected
C8_Witness ==
    /\ wcall.fn = "deriveSolSigningKeySlip10"
    /\ RootOk(wcall.root)
    /\ wcall.arg.index.kind = "nan"
    /\ wcall.res.status = "error"
    /\ wcall.res.err = "index must be a non-negative integer"

\* C9: for a fixed valid root and each chain's deriveAddress (SLIP-10 with
\* the phantom or solflare preset), two distinct accepted indices, also
\* those at or above 2^31 and 2^32, never yield the same address.
C9_IndexUniqueness ==
    IF wcall.fn \notin AddressFns THEN TRUE
    ELSE (/\ RootOk(wcall.root)
          /\ IndexOk(DefaultIndex(CallIndex))
          /\ wcall.fn \in Slip10Fns => wcall.arg.preset \in {"absent", "phantom", "solflare"}
          /\ wcall.res.status = "ok")
            => \A j \in IntInputs :
                  LET other == AddressOf(wcall.fn, wcall.root, CallArgWith(j))
                  IN  (j # DefaultIndex(CallIndex).n /\ other.status = "ok")
                         => other.address # wcall.res.address

\* C10: for every chain, every valid root and every accepted index (and
\* SLIP-10 options value), deriveSigningKey returns the address and the
\* publicKey that deriveAddress returns for the same arguments, and throws
\* exactly when deriveAddress throws.
C10_SigningMatchesAddress ==
    IF wcall.fn \notin SigningFns THEN TRUE
    ELSE (RootOk(wcall.root) /\ IndexOk(DefaultIndex(CallIndex)))
            => LET a == AddressOf(wcall.fn, wcall.root, wcall.arg)
               IN  /\ wcall.res.status = a.status
                   /\ wcall.res.address = a.address
                   /\ wcall.res.publicKey = a.publicKey
                   /\ wcall.res.status = "ok" => wcall.res.privateKey # <<>>

\* a BTC signing key was derived for a valid root at a non-zero index
C10_Witness ==
    /\ wcall.fn = "deriveBtcSigningKey"
    /\ RootOk(wcall.root)
    /\ wcall.arg.kind = "int" /\ wcall.arg.n = <<0, 0, 1>>
    /\ wcall.res.status = "ok"
    /\ wcall.res.address # <<>>

EthFns == {"deriveEthAddress", "deriveEthSigningKey"}

\* address.toLowerCase() of a checksummed address
LowerCased(address) ==
    [pre |-> address.pre,
     chars |-> [i \in 1..Len(address.chars) |-> HexChar(address.chars[i].v)]]

\* nibble i (0-based, high nibble first) of a digest
NibbleAt(hash, i) ==
    IF i % 2 = 0 THEN hash[(i \div 2) + 1] \div 16 ELSE hash[(i \div 2) + 1] % 16

\* C20: every address an ETH derivation returns is '0x' followed by 40 hex
\* characters; its letter at position i is upper case exactly when nibble i of
\* the Keccak-256 digest of the lower-cased 40 characters is >= 8 (a digit has
\* no case); and lower-casing the address and applying toChecksumAddress again
\* gives the same string.
C20_Eip55ChecksumValid ==
    (wcall.fn \in EthFns /\ wcall.res.status = "ok") =>
        LET a == wcall.res.address
            hash == keccak_256(hexCharCodes(LowerCased(a).chars))
        IN  /\ a.pre = "0x"
            /\ Len(a.chars) = 40
            /\ \A k \in 1..40 :
                 /\ a.chars[k].v \in 0..15
                 /\ a.chars[k].up <=>
                      (a.chars[k].v >= 10 /\ NibbleAt(hash, k - 1) >= 8)
            /\ toChecksumAddress(LowerCased(a)) = a

\* an ETH signing key whose address holds an upper-case letter at an even and
\* at an odd position, and a lower-case letter
C20_Witness ==
    /\ wcall.fn = "deriveEthSigningKey"
    /\ wcall.res.status = "ok"
    /\ \E j, k, l \in 1..40 :
         /\ j % 2 = 0 /\ wcall.res.address.chars[j].up
         /\ k % 2 = 1 /\ wcall.res.address.chars[k].up
         /\ wcall.res.address.chars[l].v >= 10 /\ ~wcall.res.address.chars[l].up

BtcFns == {"deriveBtcAddress", "deriveBtcSigningKey"}

\* C21: a BTC call given type 'taproot' throws and returns no address, public
\* key or private key; every address a BTC call returns has witness version 0
\* and human-readable part 'bc'.
C21_TaprootUnsupported ==
    wcall.fn \in BtcFns =>
        /\ wcall.type = "taproot" =>
              /\ wcall.res.status = "error"
              /\ wcall.res.address = <<>>
              /\ wcall.res.publicKey = <<>>
              /\ wcall.res.privateKey = <<>>
        /\ wcall.res.status = "ok" =>
              /\ wcall.res.address.version = 0
              /\ wcall.res.address.hrp = "bc"

\* a taproot address call with a valid root and index was refused after the
\* key had been derived
C21_Witness ==
    /\ wcall.fn = "deriveBtcAddress"
    /\ wcall.type = "taproot"
    /\ RootOk(wcall.root)
    /\ IndexOk(DefaultIndex(wcall.arg))
    /\ wcall.res.status = "error"
    /\ wcall.res.err = "Taproot (P2TR) not supported yet"

----------------------------------------------------------------------------
RECURSIVE StepsOf(_)
\* the ser32 child numbers hashed on the way to an Ed25519 key, read off
\* the key: key = slice(HMAC(chainCode, 0x00 || parent key || ser32))
StepsOf(key) ==
    LET data == key[2][3]
    IN  IF data[1] = "seed" THEN <<>> ELSE Append(StepsOf(data[3]), data[4])

\* the ser32 child numbers of the Ed25519 derivation steps a call computed
ChildSteps(res) ==
    IF res.status = "ok" /\ res.privateKey # <<>> /\ res.privateKey[1] = "slice0_32"
    THEN StepsOf(res.privateKey)
    ELSE <<>>

\* C11: no Ed25519 child-derivation step is computed with an index whose
\* hardened bit (2^31, the top bit of the first ser32 byte) is clear:
\* parseSlip10Path rejects a path with a segment lacking the ' suffix before
\* any HMAC, and deriveSlip10Ed25519 rejects a numeric path holding an index
\* below 2^31.
C11_HardenedOnly ==
    IF wcall.fn \notin (Slip10Fns \cup {"deriveSlip10Ed25519"}) THEN TRUE
    ELSE /\ \A i \in 1..Len(ChildSteps(wcall.res)) : ChildSteps(wcall.res)[i][1] >= 128
         /\ (/\ wcall.fn \in Slip10Fns
             /\ RootOk(wcall.root)
             /\ wcall.arg.preset = "custom"
             /\ IndexOk(DefaultIndex(wcall.arg.index))
             /\ \E i \in 1..Len(wcall.arg.path.segs) : ~wcall.arg.path.segs[i].hard)
               => (wcall.res.status = "error" /\ wcall.res.ops = <<>>)
         /\ (/\ wcall.fn = "deriveSlip10Ed25519"
             /\ \E i \in 1..Len(wcall.arg) : wcall.arg[i][2] < HARDENED[2])
               => wcall.res.status = "error"

----------------------------------------------------------------------------
RECURSIVE Slip10Node(_, _)
\* SLIP-10 for Ed25519: the node of the empty path is the two halves of
\* HMAC-SHA512(key = 'ed25519 seed', data = root); the node of path ++ <<i>>
\* is the two halves of HMAC-SHA512(key = the chain code of the node of
\* path, data = 0x00 || its key || ser32(i))
Slip10Node(root, path) ==
    LET I == IF path = <<>>
             THEN << "hmacSha512", << "ed25519 seed" >>, << "seed", root.id >> >>
             ELSE LET parent == Slip10Node(root, SubSeq(path, 1, Len(path) - 1))
                  IN  << "hmacSha512", parent.chainCode,
                         << "data", 0, parent.key,
                            << path[Len(path)][2] \div 256, path[Len(path)][2] % 256,
                               path[Len(path)][3] \div 256, path[Len(path)][3] % 256 >> >> >>
    IN  [key |-> << "slice0_32", I >>, chainCode |-> << "slice32", I >>]

\* C28: deriveSlip10Ed25519(root, path) returns the key of the SLIP-10 node
\* of path; for the empty path that is the master key; and for every split
\* path = p ++ q it is the key reached by continuing the child derivation
\* over q from the node of p.
C28_Slip10Derivation ==
    (wcall.fn = "deriveSlip10Ed25519" /\ wcall.res.status = "ok") =>
        LET root == wcall.root
            path == wcall.arg
        IN  /\ wcall.res.privateKey = Slip10Node(root, path).key
            /\ path = <<>> =>
                  wcall.res.privateKey =
                     << "slice0_32",
                        << "hmacSha512", << "ed25519 seed" >>, << "seed", root.id >> >> >>
            /\ \A k \in 0..Len(path) :
                  LET p == deriveSlip10Ed25519(root, SubSeq(path, 1, k))
                      q == SubSeq(path, k + 1, Len(path))
                  IN  slip10Loop([key |-> p.key, chainCode |-> p.chainCode], q).key
                         = wcall.res.privateKey

\* a key was derived over a path of two child numbers
C28_Witness ==
    /\ wcall.fn = "deriveSlip10Ed25519"
    /\ wcall.res.status = "ok"
    /\ Len(wcall.arg) = 2
    /\ wcall.arg[1] # wcall.arg[2]

\* the hardened child number n' : n + 2^31 as a uint32
HardenedChild(n) == << 0, (n[2] + 32768) % 65536, n[3] >>

\* the child numbers of m/44'/501'/i'/0' and of m/44'/501'/i'
PresetChildren(preset, i) ==
    LET account == << HardenedChild(<<0, 0, 44>>), HardenedChild(<<0, 0, 501>>),
                      HardenedChild(i) >>
    IN  IF preset = "solflare" THEN account
        ELSE Append(account, HardenedChild(Zero))

\* the child numbers a fully hardened path string denotes
CustomChildren(path) ==
    [k \in 1..Len(path.segs) |-> HardenedChild(StringToNumber(path.segs[k].digits))]

\* C29: for a valid root and an accepted index i, the SLIP-10 Solana
\* functions derive along m/44'/501'/i'/0' with preset phantom or no preset
\* and along m/44'/501'/i' with preset solflare, the two presets giving
\* different addresses; with preset custom they derive along opts.path when
\* it is a path of hardened segments and throw before any HMAC when it is
\* missing or has another form.
C29_Slip10Presets ==
    (/\ wcall.fn \in Slip10Fns
     /\ RootOk(wcall.root)
     /\ IndexOk(DefaultIndex(wcall.arg.index))) =>
        LET i == DefaultIndex(wcall.arg.index).n
            preset == wcall.arg.preset
            path == wcall.arg.path
        IN  /\ preset \in {"absent", "phantom", "solflare"} =>
                  /\ wcall.res.status = "ok"
                  /\ wcall.res.publicKey[2]
                        = Slip10Node(wcall.root, PresetChildren(preset, i)).key
                  /\ deriveSolAddressSlip10(wcall.root,
                                            [wcall.arg EXCEPT !.preset = "phantom"]).address
                       # deriveSolAddressSlip10(wcall.root,
                                            [wcall.arg EXCEPT !.preset = "solflare"]).address
            /\ preset = "custom" =>
                  IF /\ path.start = "m/"
                     /\ \A k \in 1..Len(path.segs) :
                           path.segs[k].hard /\ path.segs[k].digits # <<>>
                  THEN /\ wcall.res.status = "ok"
                       /\ wcall.res.publicKey[2]
                             = Slip10Node(wcall.root, CustomChildren(path)).key
                  ELSE /\ wcall.res.status = "error"
                       /\ wcall.res.ops = <<>>

----------------------------------------------------------------------------
(***************************************************************************)
(* Part III : core primitives (sdks/core)                                  *)
(*                                                                         *)
(* A label such as 'seedid/v1/wallet:eth' is the tuple of its '/'-separated*)
(* parts; textToBytes of such ASCII text is the text itself.  A byte array *)
(* that is not a hash output is [len, id]: its length and which bytes.     *)
(***************************************************************************)

NumMasters == 2   \* distinct 32-byte key values
MaxLength == 66   \* hkdf lengths 1..MaxLength are tried besides those around MAX_LEN

HKDF_SALT == << "seedid", "v1" >>
LABEL_NOSTR_KEY == << "seedid", "v1", "nostr:key" >>
LABEL_DID_KEY_ED25519 == << "seedid", "v1", "did:key:ed25519" >>
LABEL_DID_KEY_SECP256K1 == << "seedid", "v1", "did:key:secp256k1" >>
LABEL_WALLET_ETH == << "seedid", "v1", "wallet:eth" >>
LABEL_WALLET_BTC == << "seedid", "v1", "wallet:btc" >>
LABEL_WALLET_SOL == << "seedid", "v1", "wallet:sol" >>

\* RFC 5869: max output length is 255 * HashLen
MAX_LEN == 255 * 32

MasterInputs ==
    { [len |-> 32, id |-> i] : i \in 1..NumMasters }
      \cup { [len |-> 16, id |-> 1], [len |-> 33, id |-> 1], [len |-> 0, id |-> 0] }

InfoInputs == { <<>>, << "test" >>, LABEL_NOSTR_KEY, LABEL_WALLET_ETH }

LengthInputs ==
    (-1..MaxLength) \cup { MAX_LEN - 1, MAX_LEN, MAX_LEN + 1, MAX_LEN + 32 }

\* opts of hkdf; hasSalt / hasLength = FALSE is an absent property
HkdfOptsInputs ==
    { [hasSalt |-> TRUE, salt |-> HKDF_SALT, hasLength |-> TRUE, length |-> l] :
          l \in LengthInputs }
      \cup { [hasSalt |-> hs, salt |-> sa, hasLength |-> FALSE, length |-> 0] :
                hs \in BOOLEAN, sa \in { HKDF_SALT, << "pepper" >> } }

textToBytes(str) == str

\* HMAC-SHA256 as the term naming its key and data
hmacSha256(key, data) == << "hmac", key, data >>

NoRun == [length |-> 0, pos |-> 0, counter |-> 0]

CoreThrow(msg, ops) ==
    [status |-> "error", err |-> msg, ops |-> ops, out |-> <<>>, run |-> NoRun]

\* variant: a length of 0 passes the check
hkdfLengthOkAllowsZero(length) == ~(length < 0 \/ length > MAX_LEN)

hkdfLengthOk(length) == ~(length <= 0 \/ length > MAX_LEN)

Min(a, b) == IF a < b THEN a ELSE b

\* hkdf up to its while loop: defaults, the length check, HKDF-Extract and
\* the loop variables.  T(i) = HMAC(prk, T(i-1) || info || byte) is
\* determined by prk, info and the counter bytes written so far, so `out`
\* records each block as the byte stored in input[input.length - 1] and the
\* number of bytes taken from T(i).
hkdfBegin(ikm, info, opts) ==
    LET salt == IF opts.hasSalt THEN opts.salt ELSE HKDF_SALT
        length == IF opts.hasLength THEN opts.length ELSE 32
    IN  IF ~hkdfLengthOk(length) THEN CoreThrow("Invalid HKDF output length", <<>>)
        ELSE
        LET infoBytes == textToBytes(info)
            saltBytes == textToBytes(salt)
            prk == hmacSha256(saltBytes, ikm)
        IN  [status |-> "running", err |-> "", ops |-> << "hmacSha256" >>,
             out |-> [prk |-> prk, info |-> infoBytes, len |-> length, blocks |-> <<>>],
             run |-> [length |-> length, pos |-> 0, counter |-> 1]]

\* The core functions keep no state between calls: a behaviour follows one
\* call from its start to its return.
Idle == wcall.fn = "none"

Hkdf(ikm, info, opts) ==
    /\ Idle
    /\ wcall' = WCall("hkdf", ikm, [info |-> info, opts |-> opts],
                      hkdfBegin(ikm, info, opts))
    /\ UNCHANGED <<nwcVars, otherVars>>

\* variant: the counter is not advanced after the first block
HkdfExpandStepStuckCounter ==
    /\ wcall.res.status = "running"
    /\ wcall.res.run.pos < wcall.res.run.length
    /\ LET run == wcall.res.run
           take == Min(32, run.length - run.pos)
       IN  wcall' = [wcall EXCEPT
                !.res.out.blocks = Append(@, [c |-> run.counter % 256, take |-> take]),
                !.res.ops = Append(@, "hmacSha256"),
                !.res.run = [run EXCEPT !.pos = @ + take]]
    /\ UNCHANGED <<nwcVars, otherVars>>

\* one iteration of the while loop of HKDF-Expand
HkdfExpandStep ==
    /\ wcall.res.status = "running"
    /\ wcall.res.run.pos < wcall.res.run.length
    /\ LET run == wcall.res.run
           take == Min(32, run.length - run.pos)
       IN  wcall' = [wcall EXCEPT
                !.res.out.blocks = Append(@, [c |-> run.counter % 256, take |-> take]),
                !.res.ops = Append(@, "hmacSha256"),
                !.res.run = [run EXCEPT !.pos = @ + take, !.counter = @ + 1]]
    /\ UNCHANGED <<nwcVars, otherVars>>

\* the loop condition fails: return out
HkdfReturn ==
    /\ wcall.res.status = "running"
    /\ ~(wcall.res.run.pos < wcall.res.run.length)
    /\ wcall' = [wcall EXCEPT !.res.status = "ok"]
    /\ UNCHANGED <<nwcVars, otherVars>>

\* the opts every namespace helper passes to hkdf
HelperOpts == [hasSalt |-> TRUE, salt |-> HKDF_SALT, hasLength |-> TRUE, length |-> 32]

CurveInputs == {"ed25519", "secp256k1", "p256"}

ChainInputs == {"eth", "btc", "sol", "doge"}

\* variant: the btc case uses the eth label
HelperLabelBtcAsEth(fn, sel) ==
    CASE fn = "forNostr" -> LABEL_NOSTR_KEY
      [] fn = "forDidKey" ->
            IF sel = "ed25519" THEN LABEL_DID_KEY_ED25519 ELSE LABEL_DID_KEY_SECP256K1
      [] fn = "forWallet" ->
            CASE sel = "eth" -> LABEL_WALLET_ETH
              [] sel = "btc" -> LABEL_WALLET_ETH
              [] sel = "sol" -> LABEL_WALLET_SOL
              [] OTHER -> <<>>

\* the info label each helper passes to hkdf; <<>> where forWallet's switch
\* falls to its default case
HelperLabel(fn, sel) ==
    CASE fn = "forNostr" -> LABEL_NOSTR_KEY
      [] fn = "forDidKey" ->
            IF sel = "ed25519" THEN LABEL_DID_KEY_ED25519 ELSE LABEL_DID_KEY_SECP256K1
      [] fn = "forWallet" ->
            CASE sel = "eth" -> LABEL_WALLET_ETH
              [] sel = "btc" -> LABEL_WALLET_BTC
              [] sel = "sol" -> LABEL_WALLET_SOL
              [] OTHER -> <<>>

ForNostr(master) ==
    /\ Idle
    /\ wcall' = WCall("forNostr", master, [sel |-> ""],
                      hkdfBegin(master, HelperLabel("forNostr", ""), HelperOpts))
    /\ UNCHANGED <<nwcVars, otherVars>>

ForDidKey(master, curve) ==
    /\ Idle
    /\ wcall' = WCall("forDidKey", master, [sel |-> curve],
                      hkdfBegin(master, HelperLabel("forDidKey", curve), HelperOpts))
    /\ UNCHANGED <<nwcVars, otherVars>>

ForWallet(master, chain) ==
    /\ Idle
    /\ wcall' = WCall("forWallet", master, [sel |-> chain],
                      IF HelperLabel("forWallet", chain) = <<>>
                      THEN CoreThrow("Unsupported wallet chain", <<>>)
                      ELSE hkdfBegin(master, HelperLabel("forWallet", chain), HelperOpts))
    /\ UNCHANGED <<nwcVars, otherVars>>

\* wallets/src/index.ts: deriveWalletRoot checks the master's length and
\* the chain and delegates to forWallet
DeriveWalletRoot(master, chain) ==
    /\ Idle
    /\ wcall' = WCall("deriveWalletRoot", master, [sel |-> chain],
                      IF master.len # 32
                      THEN CoreThrow("master key must be 32 bytes", <<>>)
                      ELSE IF chain # "eth" /\ chain # "btc" /\ chain # "sol"
                      THEN CoreThrow("Unsupported chain", <<>>)
                      ELSE hkdfBegin(master, HelperLabel("forWallet", chain), HelperOpts))
    /\ UNCHANGED <<nwcVars, otherVars>>

----------------------------------------------------------------------------
(* normalizePassphrase.  A string is the sequence of its code points.      *)

MaxStr == 3   \* longest passphrase tried

\* A, a, A-ring, a-ring, combining ring, diaeresis, combining diaeresis,
\* space, tab, no-break space, line separator, byte order mark
CodePoints == {65, 97, 197, 229, 778, 168, 776, 32, 9, 160, 8232, 65279}

StringInputs == UNION { [1..n -> CodePoints] : n \in 0..MaxStr }

\* String.prototype.normalize('NFKD') on one code point: the compatibility
\* decomposition of the Unicode Character Database
DecomposeChar(c) ==
    CASE c = 197 -> << 65, 778 >>
      [] c = 229 -> << 97, 778 >>
      [] c = 168 -> << 32, 776 >>
      [] c = 160 -> << 32 >>
      [] OTHER -> << c >>

RECURSIVE NFKD(_)
\* (the two combining marks have the same combining class: no reordering)
NFKD(str) == IF str = <<>> THEN <<>> ELSE DecomposeChar(Head(str)) \o NFKD(Tail(str))

\* String.prototype.toLowerCase
toLowerCase(str) ==
    [i \in 1..Len(str) |-> CASE str[i] = 65 -> 97 [] str[i] = 197 -> 229 [] OTHER -> str[i]]

\* ECMAScript WhiteSpace and LineTerminator code points, which trim() strips
IsWhiteSpace(c) ==
    c \in ({9, 10, 11, 12, 13, 32, 160, 5760, 8232, 8233, 8239, 8287, 12288, 65279}
              \cup (8192..8202))

RECURSIVE trimStart(_)
trimStart(str) ==
    IF str # <<>> /\ IsWhiteSpace(Head(str)) THEN trimStart(Tail(str)) ELSE str

RECURSIVE trimEnd(_)
trimEnd(str) ==
    IF str # <<>> /\ IsWhiteSpace(str[Len(str)])
    THEN trimEnd(SubSeq(str, 1, Len(str) - 1)) ELSE str

\* String.prototype.trim
trim(str) == trimEnd(trimStart(str))

normalizePassphrase(passphrase) == trim(toLowerCase(NFKD(passphrase)))

NormalizePassphrase(passphrase) ==
    /\ Idle
    /\ wcall' = WCall("normalizePassphrase", passphrase, <<>>,
                      [status |-> "ok", err |-> "", ops |-> <<>>,
                       out |-> normalizePassphrase(passphrase), run |-> NoRun])
    /\ UNCHANGED <<nwcVars, otherVars>>

----------------------------------------------------------------------------
(* deriveMasterKey *)

Absent == [kind |-> "absent", v |-> 0]

\* a params entry: absent, an integer v, the fraction v + 1/2, or a value
\* that Number() turns into NaN
ParamValues ==
    { Absent, [kind |-> "nan", v |-> 0], [kind |-> "frac", v |-> 1] }
      \cup { [kind |-> "int", v |-> v] : v \in {-1, 0, 1, 8, 64} }

NoParams ==
    [memory_cost |-> Absent, memorySize |-> Absent, time_cost |-> Absent,
     iterations |-> Absent, parallelism |-> Absent, hash_len |-> Absent,
     hashLength |-> Absent]

ParamsInputs ==
    { NoParams }
      \cup { [NoParams EXCEPT ![f] = x] :
                f \in DOMAIN NoParams, x \in ParamValues \ { Absent } }
      \cup { [NoParams EXCEPT !.memory_cost = [kind |-> "int", v |-> 8],
                              !.time_cost = [kind |-> "int", v |-> 1],
                              !.parallelism = [kind |-> "int", v |-> 1],
                              !.hash_len = [kind |-> "int", v |-> 16]] }

PassphraseInputs == { <<>>, << 32 >>, << 97 >>, << 65 >>, << 32, 97 >>, << 197 >> }

KdfInputs ==
    { [algorithm |-> a, params |-> pa, hasSalt |-> hs, salt |-> HKDF_SALT] :
          a \in {"argon2id", "scrypt", "blake2"}, pa \in ParamsInputs, hs \in BOOLEAN }

\* Number(a ?? b ?? dflt)
Param(a, b, dflt) ==
    IF a.kind # "absent" THEN a
    ELSE IF b.kind # "absent" THEN b
    ELSE [kind |-> "int", v |-> dflt]

\* hash-wasm argon2id: it checks its own arguments (integers, iterations and
\* parallelism at least 1, hashLength at least 4, memorySize at least
\* 8 * parallelism) and throws, otherwise returns hashLength bytes
argon2id(password, salt, p, t, m, L) ==
    IF /\ p.kind = "int" /\ t.kind = "int" /\ m.kind = "int" /\ L.kind = "int"
       /\ p.v >= 1 /\ t.v >= 1 /\ L.v >= 4 /\ m.v >= 8 * p.v
    THEN [status |-> "ok", err |-> "", ops |-> << "argon2id" >>,
          out |-> [kdf |-> << "argon2id", password, salt, p.v, t.v, m.v >>, len |-> L.v],
          run |-> NoRun]
    ELSE CoreThrow("argon2id: invalid parameter", << "argon2id" >>)

deriveMasterKey(_passphrase, _opts) ==
    LET passphrase == normalizePassphrase(_passphrase)
        saltBytes == IF _opts.hasSalt THEN textToBytes(_opts.salt)
                     ELSE [len |-> 16, id |-> 0]
        pa == _opts.params
    IN  IF _opts.algorithm = "argon2id"
        THEN argon2id(textToBytes(passphrase), saltBytes,
                      Param(pa.parallelism, Absent, 2),
                      Param(pa.time_cost, pa.iterations, 5),
                      Param(pa.memory_cost, pa.memorySize, 262144),
                      Param(pa.hash_len, pa.hashLength, 32))
        ELSE IF _opts.algorithm = "scrypt"
        THEN CoreThrow("scrypt fallback not implemented", <<>>)
        ELSE CoreThrow("Unsupported KDF algorithm", <<>>)

DeriveMasterKey(_passphrase, _opts) ==
    /\ Idle
    /\ wcall' = WCall("deriveMasterKey", _passphrase, _opts,
                      deriveMasterKey(_passphrase, _opts))
    /\ UNCHANGED <<nwcVars, otherVars>>

NextCore ==
    \/ \E pass \in PassphraseInputs, opts \in KdfInputs : DeriveMasterKey(pass, opts)
    \/ \E passphrase \in StringInputs : NormalizePassphrase(passphrase)
    \/ \E master \in MasterInputs : ForNostr(master)
    \/ \E master \in MasterInputs, curve \in CurveInputs : ForDidKey(master, curve)
    \/ \E master \in MasterInputs, chain \in ChainInputs : ForWallet(master, chain)
    \/ \E master \in MasterInputs, chain \in ChainInputs : DeriveWalletRoot(master, chain)
    \/ \E ikm \in MasterInputs, info \in InfoInputs, opts \in HkdfOptsInputs :
          Hkdf(ikm, info, opts)
    \/ HkdfExpandStep
    \/ HkdfReturn

SpecCore == Init /\ [][NextCore]_vars

\* every exported derivation function of the core and wallet packages; a
\* behaviour follows one call
NextDerivations == (Idle /\ NextWallet) \/ NextCore

SpecDerivations == Init /\ [][NextDerivations]_vars

----------------------------------------------------------------------------
(* Properties of the core primitives *)

\* the length an hkdf call asked for
HkdfLength == IF wcall.arg.opts.hasLength THEN wcall.arg.opts.length ELSE 32

\* C12: hkdf with length 0, a negative length or a length above 8160 throws
\* before any HMAC (extract or expand) is computed; for 1 <= L <= 8160 it
\* does not throw and returns exactly L bytes.
C12_HkdfLengthBounds ==
    IF wcall.fn # "hkdf" THEN TRUE
    ELSE /\ (HkdfLength <= 0 \/ HkdfLength > 8160)
               => (wcall.res.status = "error" /\ wcall.res.ops = <<>>)
         /\ (1 <= HkdfLength /\ HkdfLength <= 8160)
               => /\ wcall.res.status \in {"running", "ok"}
                  /\ wcall.res.status = "ok" =>
                        LET b == wcall.res.out.blocks
                        IN  /\ wcall.res.out.len = HkdfLength
                            /\ Len(b) >= 1
                            /\ \A i \in 1..(Len(b) - 1) : b[i].take = 32
                            /\ b[Len(b)].take \in 1..32
                            /\ (Len(b) - 1) * 32 + b[Len(b)].take = HkdfLength

\* hkdf returned 33 bytes: one full block and one byte of the second
C12_Witness ==
    /\ wcall.fn = "hkdf"
    /\ wcall.res.status = "ok"
    /\ HkdfLength = 33
    /\ Len(wcall.res.out.blocks) = 2
    /\ wcall.res.out.blocks[2].take = 1

HelperFns == {"forNostr", "forDidKey", "forWallet"}

\* core/namespaces.md: the canonical label of a helper and its argument
CanonicalLabel(fn, sel) ==
    CASE fn = "forNostr" -> << "seedid", "v1", "nostr:key" >>
      [] fn = "forDidKey" -> << "seedid", "v1", "did:key:" \o sel >>
      [] fn = "forWallet" -> << "seedid", "v1", "wallet:" \o sel >>

\* C14: forNostr, forDidKey and forWallet reject a master that is not
\* exactly 32 bytes before calling hkdf, and for a 32-byte master return
\* hkdf(master, canonical label, salt 'seedid/v1', length 32).
C14_HelpersValidateMaster ==
    IF wcall.fn \notin HelperFns THEN TRUE
    ELSE /\ wcall.root.len # 32
               => (wcall.res.status = "error" /\ wcall.res.ops = <<>>)
         /\ (/\ wcall.root.len = 32
             /\ wcall.arg.sel \in {"", "ed25519", "secp256k1", "eth", "btc", "sol"}
             /\ wcall.res.status # "running")
               => /\ wcall.res.status = "ok"
                  /\ wcall.res.out =
                        [prk |-> << "hmac", << "seedid", "v1" >>, wcall.root >>,
                         info |-> CanonicalLabel(wcall.fn, wcall.arg.sel),
                         len |-> 32,
                         blocks |-> << [c |-> 1, take |-> 32] >>]

\* the six helper/argument combinations of the namespace scheme
Combos ==
    { << "forNostr", "" >>, << "forWallet", "eth" >>, << "forWallet", "btc" >>,
      << "forWallet", "sol" >>, << "forDidKey", "ed25519" >>,
      << "forDidKey", "secp256k1" >> }

\* C15: for a 32-byte master the six helper/argument combinations use
\* pairwise distinct info labels, each with prefix seedid/v1/, and so
\* produce pairwise distinct 32-byte outputs.
C15_DomainSeparation ==
    IF ~(/\ wcall.fn \in HelperFns
         /\ << wcall.fn, wcall.arg.sel >> \in Combos
         /\ wcall.root.len = 32
         /\ wcall.res.status = "ok")
    THEN TRUE
    ELSE /\ Len(wcall.res.out.info) = 3
         /\ SubSeq(wcall.res.out.info, 1, 2) = << "seedid", "v1" >>
         /\ wcall.res.out.len = 32
         /\ \A c \in Combos \ { << wcall.fn, wcall.arg.sel >> } :
               /\ HelperLabel(c[1], c[2]) # wcall.res.out.info
               /\ [wcall.res.out EXCEPT !.info = HelperLabel(c[1], c[2])] # wcall.res.out

\* forWallet(master, 'btc') returned for a 32-byte master
C15_Witness ==
    /\ wcall.fn = "forWallet" /\ wcall.arg.sel = "btc"
    /\ wcall.root.len = 32
    /\ wcall.res.status = "ok"
    /\ wcall.res.out.info = LABEL_WALLET_BTC

\* ASCII whitespace: tab, line feed, vertical tab, form feed, carriage
\* return, space
AsciiSpace == {9, 10, 11, 12, 13, 32}

RECURSIVE TrimAsciiStart(_)
TrimAsciiStart(str) ==
    IF str # <<>> /\ Head(str) \in AsciiSpace THEN TrimAsciiStart(Tail(str)) ELSE str

RECURSIVE TrimAsciiEnd(_)
TrimAsciiEnd(str) ==
    IF str # <<>> /\ str[Len(str)] \in AsciiSpace
    THEN TrimAsciiEnd(SubSeq(str, 1, Len(str) - 1)) ELSE str

\* C17: normalization is NFKD, then lowercase, then trimming of leading and
\* trailing ASCII whitespace; it is idempotent, and a string and its
\* decomposed form normalize to the same string.
C17_Normalization ==
    IF wcall.fn # "normalizePassphrase" \/ wcall.res.status # "ok" THEN TRUE
    ELSE /\ wcall.res.out = TrimAsciiEnd(TrimAsciiStart(toLowerCase(NFKD(wcall.root))))
         /\ normalizePassphrase(wcall.res.out) = wcall.res.out
         /\ normalizePassphrase(NFKD(wcall.root)) = wcall.res.out

\* the four Argon2id parameters a deriveMasterKey call resolves to
KdfNumbers(pa) ==
    { Param(pa.memory_cost, pa.memorySize, 262144), Param(pa.time_cost, pa.iterations, 5),
      Param(pa.parallelism, Absent, 2), Param(pa.hash_len, pa.hashLength, 32) }

\* C16: a memory cost, time cost, parallelism or hash length that is not a
\* positive integer makes deriveMasterKey reject before the Argon2id
\* primitive is invoked, and an algorithm other than 'argon2id' (also
\* 'scrypt') is rejected without computing a key.
C16_KdfParamsValidated ==
    IF wcall.fn # "deriveMasterKey" THEN TRUE
    ELSE /\ (/\ wcall.arg.algorithm = "argon2id"
             /\ \E x \in KdfNumbers(wcall.arg.params) : ~(x.kind = "int" /\ x.v > 0))
               => (wcall.res.status = "error" /\ wcall.res.ops = <<>>)
         /\ wcall.arg.algorithm # "argon2id"
               => (wcall.res.status = "error" /\ wcall.res.ops = <<>>
                     /\ wcall.res.out = <<>>)

\* C18: normalizePassphrase fails whenever the normalized result is empty,
\* so deriveMasterKey never stretches an empty passphrase.
C18_EmptyRejected ==
    /\ (wcall.fn = "normalizePassphrase" /\ normalizePassphrase(wcall.root) = <<>>)
          => wcall.res.status = "error"
    /\ (wcall.fn = "deriveMasterKey" /\ normalizePassphrase(wcall.root) = <<>>)
          => (wcall.res.status = "error" /\ wcall.res.ops = <<>>)

\* C26: forWallet and deriveWalletRoot reject a chain other than eth, btc and
\* sol, forDidKey rejects a curve other than ed25519 and secp256k1, and the
\* SLIP-10 Solana functions reject a preset other than phantom, solflare and
\* custom and a custom preset without path; a rejected call computed no HMAC
\* and no key.
C26_UnsupportedRejected ==
    LET unsupported ==
          \/ /\ wcall.fn \in {"forWallet", "deriveWalletRoot"}
             /\ wcall.arg.sel \notin {"eth", "btc", "sol"}
          \/ /\ wcall.fn = "forDidKey"
             /\ wcall.arg.sel \notin {"ed25519", "secp256k1"}
          \/ /\ wcall.fn \in {"deriveSolAddressSlip10", "deriveSolSigningKeySlip10"}
             /\ \/ wcall.arg.preset \notin {"absent", "phantom", "solflare", "custom"}
                \/ wcall.arg.preset = "custom" /\ wcall.arg.path.start = ""
    IN  unsupported => wcall.res.status = "error" /\ wcall.res.ops = <<>>

\* what the call fn(secret, arg) answers when it starts: the recorded call
\* with its secret argument (root, seed, master, ikm or passphrase) replaced
StartOf(fn, secret, arg) ==
    CASE fn = "deriveEthAddress" -> deriveEthAddress(secret, arg)
      [] fn = "deriveEthSigningKey" -> deriveEthSigningKey(secret, arg)
      [] fn = "deriveBtcAddress" -> deriveBtcAddress(secret, arg, wcall.type)
      [] fn = "deriveBtcSigningKey" -> deriveBtcSigningKey(secret, arg, wcall.type)
      [] fn = "deriveSolAddress" -> deriveSolAddress(secret, arg)
      [] fn = "deriveSolSigningKey" -> deriveSolSigningKey(secret, arg)
      [] fn = "deriveSolAddressSlip10" -> deriveSolAddressSlip10(secret, arg)
      [] fn = "deriveSolSigningKeySlip10" -> deriveSolSigningKeySlip10(secret, arg)
      [] fn = "deriveSlip10Ed25519" -> slip10Call(secret, arg)
      [] fn = "hkdf" -> hkdfBegin(secret, arg.info, arg.opts)
      [] fn \in {"forNostr", "forDidKey"} ->
            hkdfBegin(secret, HelperLabel(fn, arg.sel), HelperOpts)
      [] fn = "forWallet" ->
            IF HelperLabel(fn, arg.sel) = <<>>
            THEN CoreThrow("Unsupported wallet chain", <<>>)
            ELSE hkdfBegin(secret, HelperLabel(fn, arg.sel), HelperOpts)
      [] fn = "deriveWalletRoot" ->
            IF secret.len # 32 THEN CoreThrow("master key must be 32 bytes", <<>>)
            ELSE IF arg.sel \notin {"eth", "btc", "sol"}
            THEN CoreThrow("Unsupported chain", <<>>)
            ELSE hkdfBegin(secret, HelperLabel("forWallet", arg.sel), HelperOpts)
      [] fn = "deriveMasterKey" -> deriveMasterKey(secret, arg)
      [] OTHER -> [status |-> "ok", err |-> ""]

\* the values that differ from the recorded secret argument in their bytes
\* only: same type and length for a byte array, any string for a passphrase
SecretVariants ==
    IF wcall.fn \in {"deriveMasterKey", "normalizePassphrase"}
    THEN PassphraseInputs
    ELSE { [wcall.root EXCEPT !.id = i] : i \in 0..NumRoots }

----------------------------------------------------------------------------
(***************************************************************************)
(* Part IV : buffers in memory (sdks/wallets/src/utils.ts and the buffers  *)
(*           the signing functions return)                                 *)
(*                                                                         *)
(* A Uint8Array is a reference into heap; two references are the same      *)
(* buffer exactly when they are equal.  A signing function reads its root  *)
(* through the reference it is given and returns its privateKey as a       *)
(* reference: a fresh buffer, or the buffer it was given.                  *)
(***************************************************************************)

MaxBufs == 3

MaxZeroize == 2

\* 32 bytes of chain root material
RootBytes(k) == [i \in 1..32 |-> k]

\* what a caller allocates: roots, an empty buffer, a short buffer
BufferInputs == { RootBytes(k) : k \in 1..NumRoots } \cup { <<>>, << 255, 0, 7 >> }

Refs == 1..Len(heap)

\* variant: the loop stops one byte short of the end
zeroizeSkipsLast(buf) == [i \in 1..Len(buf) |-> IF i < Len(buf) THEN 0 ELSE buf[i]]

\* utils.ts zeroize: for (i = 0; i < buf.length; i++) buf[i] = 0
zeroize(buf) == [i \in 1..Len(buf) |-> 0]

\* the root argument a derivation sees when it is given these bytes: the
\* bytes are named by a number that differs between the contents used here
RootOf(bytes) == [u8 |-> TRUE, len |-> Len(bytes), id |-> SumSeq(bytes)]

\* the 32 bytes of a freshly computed private key; their values stand for
\* the output of the HD derivation, HMAC or hash
KeyBytes(bytes, fn) == [i \in 1..32 |-> (bytes[((i - 1) % Len(bytes)) + 1] * 3 + Len(fn) + i) % 256]

SigningOf(fn, root, arg) ==
    CASE fn = "deriveEthSigningKey" -> deriveEthSigningKey(root, arg)
      [] fn = "deriveBtcSigningKey" -> deriveBtcSigningKey(root, arg, "absent")
      [] fn = "deriveSolSigningKey" -> deriveSolSigningKey(root, arg)
      [] fn = "deriveSolSigningKeySlip10" -> deriveSolSigningKeySlip10(root, arg)

\* the arguments after the root a signing function is called with
SigningArgs(fn) ==
    IF fn = "deriveSolSigningKeySlip10"
    THEN { o \in OptsInputs : o.preset \in {"absent", "phantom", "solflare"} }
    ELSE IndexInputs

\* new Uint8Array(...) / the buffer deriveWalletRoot returns
NewBuffer(bytes) ==
    /\ Len(heap) < MaxBufs
    /\ heap' = Append(heap, bytes)
    /\ caller' = [caller EXCEPT !.op = "new", !.target = 0]
    /\ UNCHANGED <<nwcVars, wcall, webVars, lst, fired, mgr>>

\* key = await derive...SigningKey(root, ...): the privateKey is the buffer
\* the function returns, which deriveSolSeed makes the root itself when the
\* index is 0
DeriveSigningKey(fn, ref, arg) ==
    /\ caller.fn = "none"
    /\ ref \in Refs
    /\ Len(heap) < MaxBufs
    /\ LET res == SigningOf(fn, RootOf(heap[ref]), arg)
           ok == res.status = "ok"
           sameBuffer == ok /\ res.privateKey[1] = "root"
       IN  /\ heap' = IF ok /\ ~sameBuffer
                      THEN Append(heap, KeyBytes(heap[ref], fn))
                      ELSE heap
           /\ caller' = [caller EXCEPT
                           !.op = "sign", !.fn = fn, !.root = ref, !.arg = arg,
                           !.key = IF ~ok THEN 0
                                   ELSE IF sameBuffer THEN ref ELSE Len(heap) + 1,
                           !.address = res.address, !.target = 0]
    /\ UNCHANGED <<nwcVars, wcall, webVars, lst, fired, mgr>>

\* zeroize(buf) on any buffer the caller holds
Zeroize(ref) ==
    /\ ref \in Refs
    /\ caller.zeroized < MaxZeroize
    /\ heap' = [heap EXCEPT ![ref] = zeroize(@)]
    /\ caller' = [caller EXCEPT !.op = "zeroize", !.target = ref, !.zeroized = @ + 1]
    /\ UNCHANGED <<nwcVars, wcall, webVars, lst, fired, mgr>>

NextMemory ==
    \/ \E bytes \in BufferInputs : NewBuffer(bytes)
    \/ \E fn \in SigningFns, ref \in 1..MaxBufs : \E arg \in SigningArgs(fn) :
          DeriveSigningKey(fn, ref, arg)
    \/ \E ref \in 1..MaxBufs : Zeroize(ref)

SpecMemory == Init /\ [][NextMemory]_vars

----------------------------------------------------------------------------
(* Properties of the buffers *)

AllZero(buf) == \A i \in 1..Len(buf) : buf[i] = 0

\* C22: a zeroize call leaves the heap with the same buffers and its target
\* with the same length, makes every byte of the target 0, changes no other
\* buffer, and changes nothing at all when the target was already all zero.
C22_ZeroizeInPlace ==
    [][(caller'.op = "zeroize" /\ caller'.zeroized = caller.zeroized + 1) =>
          LET r == caller'.target
          IN  /\ Len(heap') = Len(heap)
              /\ Len(heap'[r]) = Len(heap[r])
              /\ AllZero(heap'[r])
              /\ \A o \in Refs : o # r => heap'[o] = heap[o]
              /\ AllZero(heap[r]) => heap' = heap]_vars

\* a non-empty buffer was zeroized twice while another buffer kept a
\* non-zero byte
C22_Witness ==
    /\ caller.op = "zeroize"
    /\ caller.zeroized = 2
    /\ Len(heap) = 2
    /\ heap[caller.target] # <<>>
    /\ AllZero(heap[caller.target])
    /\ \E o \in Refs : ~AllZero(heap[o])

\* C30: the privateKey a signing function returned is never the root buffer
\* it was given: zeroize(key.privateKey) leaves every byte of the root as it
\* was, and deriveAddress on the same root and arguments returns afterwards
\* what it returned before.
C30_NoAliasedSecret ==
    [][(/\ caller.fn \in SigningFns
        /\ caller.key # 0
        /\ caller'.op = "zeroize"
        /\ caller'.zeroized = caller.zeroized + 1
        /\ caller'.target = caller.key) =>
          /\ caller.key # caller.root
          /\ heap'[caller.root] = heap[caller.root]
          /\ AddressOf(caller.fn, RootOf(heap'[caller.root]), caller.arg)
               = AddressOf(caller.fn, RootOf(heap[caller.root]), caller.arg)]_vars

----------------------------------------------------------------------------
(***************************************************************************)
(* Part V : the browser wallet connectors (wallet-connectors/src           *)
(*          metamask.ts and phantom.ts) and the listeners of a connector.  *)
(*                                                                         *)
(* A behaviour follows one connector object and the one provider object    *)
(* injected for it: connectors share no state.  An async method is one     *)
(* step per stretch between two awaits; conn.pc and conn.dpc say where a   *)
(* connect() and a disconnect() in flight will resume.  A handler closure  *)
(* is named by the number of the connect() call that created it, a         *)
(* listener by the order in which it was registered.                       *)
(***************************************************************************)

MaxConnects == 2     \* connect() calls that get as far as the provider

MaxListeners == 2    \* on() calls

MaxEmits == 2        \* provider events delivered

NumAccounts == 2     \* distinct account addresses / public keys

Kinds == {"metamask", "phantom", "nwc"}

\* the events a connector re-emits (NwcConnector emits none; its tests
\* register 'disconnect')
EventsOf(kind) ==
    CASE kind = "metamask" -> {"accountsChanged", "chainChanged", "disconnect"}
      [] kind = "phantom" -> {"disconnect", "accountChanged"}
      [] OTHER -> {"disconnect"}

\* the provider objects a page can inject
ProviderInputs ==
    { [present |-> TRUE, exists |-> TRUE, isMetaMask |-> m, hasOn |-> o,
       hasRemove |-> r, cbs |-> {}] : m, o, r \in BOOLEAN }

MCall(fn, arg, resp, outcome, sent) ==
    [fn |-> fn, arg |-> arg, resp |-> resp,
     was |-> [connected |-> conn.connected, account |-> conn.account],
     outcome |-> outcome, sent |-> sent]

\* the handlers of connect() call h, as the provider holds them
HandlersOf(kind, h) == { [ev |-> ev, h |-> h] : ev \in EventsOf(kind) }

\* new MetaMaskConnector() / new PhantomConnector() / new NwcConnector()
Create(kind) ==
    /\ conn.kind = "none"
    /\ conn' = [NoConn EXCEPT !.kind = kind]
    /\ UNCHANGED <<nwcVars, wcall, memVars, prov, mcall, lst, fired>>

\* the page sets window.ethereum / window.solana
SetWindow(p) ==
    /\ conn.kind \in {"metamask", "phantom"}
    /\ ~prov.exists
    /\ conn.kind = "phantom" => ~p.isMetaMask
    /\ prov' = p
    /\ UNCHANGED <<nwcVars, wcall, memVars, conn, mcall, lst, fired>>

\* the page clears window.ethereum / window.solana; the object lives on
UnsetWindow ==
    /\ prov.present
    /\ prov' = [prov EXCEPT !.present = FALSE]
    /\ UNCHANGED <<nwcVars, wcall, memVars, conn, mcall, lst, fired>>

\* connector.on(ev, listener)
On(ev) ==
    /\ conn.kind # "none"
    /\ ev \in EventsOf(conn.kind)
    /\ conn.nlst < MaxListeners
    /\ lst' = lst \cup { [ev |-> ev, id |-> conn.nlst + 1] }
    /\ conn' = [conn EXCEPT !.nlst = @ + 1]
    /\ UNCHANGED <<nwcVars, wcall, memVars, prov, mcall, fired>>

----------------------------------------------------------------------------
(* MetaMaskConnector *)

\* connect(), up to `await eth.request({ method: 'eth_requestAccounts' })`
MmConnect ==
    /\ conn.kind = "metamask"
    /\ conn.pc = "idle"
    /\ conn.nconn < MaxConnects
    /\ IF ~prov.present
       THEN /\ mcall' = MCall("connect", <<>>, <<>>, "ProviderNotFoundError", <<>>)
            /\ UNCHANGED conn
       ELSE IF ~prov.isMetaMask
       THEN /\ mcall' = MCall("connect", <<>>, <<>>, "ProviderMismatchError", <<>>)
            /\ UNCHANGED conn
       ELSE /\ conn' = [conn EXCEPT !.eth = TRUE, !.pc = "accounts", !.nconn = @ + 1]
            /\ mcall' = MCall("connect", <<>>, <<>>, "pending", << "eth_requestAccounts" >>)
    /\ UNCHANGED <<nwcVars, wcall, memVars, prov, lst, fired>>

\* connect() resumes with the accounts: acc = 0 is none or an empty list,
\* acc = -1 a rejected request
MmAccounts(acc) ==
    /\ conn.kind = "metamask"
    /\ conn.pc = "accounts"
    /\ IF acc <= 0
       THEN /\ conn' = [conn EXCEPT !.pc = "idle"]
            /\ mcall' = MCall("connect", <<>>, acc, "Error", << "eth_requestAccounts" >>)
       ELSE /\ conn' = [conn EXCEPT !.account = acc, !.connected = TRUE, !.pc = "chain"]
            /\ mcall' = MCall("connect", <<>>, acc, "pending",
                              << "eth_requestAccounts", "eth_chainId" >>)
    /\ UNCHANGED <<nwcVars, wcall, memVars, prov, lst, fired>>

\* connect() resumes after eth_chainId (cid = 0: the request threw, which
\* is swallowed), creates its three handlers and registers them with eth.on?.
MmChain(cid) ==
    /\ conn.kind = "metamask"
    /\ conn.pc = "chain"
    /\ conn' = [conn EXCEPT !.chainId = IF cid = 0 THEN @ ELSE cid,
                            !.handlers = conn.nconn, !.pc = "idle"]
    /\ prov' = IF prov.hasOn
               THEN [prov EXCEPT !.cbs = @ \cup HandlersOf("metamask", conn.nconn)]
               ELSE prov
    /\ mcall' = MCall("connect", <<>>, cid, "ok", << "eth_requestAccounts", "eth_chainId" >>)
    /\ UNCHANGED <<nwcVars, wcall, memVars, lst, fired>>

\* variant: disconnect() without removeAllListeners()
MmDisconnectKeepsListeners ==
    /\ conn.kind = "metamask"
    /\ prov' = IF (conn.eth \/ prov.present) /\ prov.hasRemove
               THEN [prov EXCEPT !.cbs = { c \in @ : c.h # conn.handlers }]
               ELSE prov
    /\ conn' = [conn EXCEPT !.connected = FALSE, !.account = 0, !.handlers = 0,
                            !.eth = FALSE]
    /\ lst' = lst
    /\ fired' = [fired EXCEPT !.dead = @ \cup lst]
    /\ mcall' = MCall("disconnect", <<>>, <<>>, "ok", <<>>)
    /\ UNCHANGED <<nwcVars, wcall, memVars>>

\* disconnect(): eth is this._eth || window.ethereum; the current handlers
\* are removed from it when it has removeListener
MmDisconnect ==
    /\ conn.kind = "metamask"
    /\ prov' = IF (conn.eth \/ prov.present) /\ prov.hasRemove
               THEN [prov EXCEPT !.cbs = { c \in @ : c.h # conn.handlers }]
               ELSE prov
    /\ conn' = [conn EXCEPT !.connected = FALSE, !.account = 0, !.handlers = 0,
                            !.eth = FALSE]
    /\ lst' = {}
    /\ fired' = [fired EXCEPT !.dead = @ \cup lst]
    /\ mcall' = MCall("disconnect", <<>>, <<>>, "ok", <<>>)
    /\ UNCHANGED <<nwcVars, wcall, memVars>>

----------------------------------------------------------------------------
(* PhantomConnector *)

\* connect(), up to `await sol.connect()`
PhConnect ==
    /\ conn.kind = "phantom"
    /\ conn.pc = "idle"
    /\ conn.nconn < MaxConnects
    /\ IF ~prov.present
       THEN /\ mcall' = MCall("connect", <<>>, <<>>, "Error", <<>>)
            /\ UNCHANGED conn
       ELSE /\ conn' = [conn EXCEPT !.eth = TRUE, !.pc = "connect", !.nconn = @ + 1]
            /\ mcall' = MCall("connect", <<>>, <<>>, "pending", << "connect" >>)
    /\ UNCHANGED <<nwcVars, wcall, memVars, prov, lst, fired>>

\* connect() resumes: pk = 0 is a response without publicKey or address,
\* pk = -1 a rejected sol.connect().  A disconnect() that found no provider
\* awaits undefined and resumes first.
PhConnected(pk) ==
    /\ conn.kind = "phantom"
    /\ conn.pc = "connect"
    /\ conn.dpc = "await" => conn.dsol
    /\ IF pk <= 0
       THEN /\ conn' = [conn EXCEPT !.pc = "idle"]
            /\ mcall' = MCall("connect", <<>>, pk, "Error", << "connect" >>)
            /\ UNCHANGED prov
       ELSE /\ conn' = [conn EXCEPT !.account = pk, !.connected = TRUE,
                                    !.handlers = conn.nconn, !.pc = "idle"]
            /\ prov' = IF prov.hasOn
                       THEN [prov EXCEPT !.cbs = @ \cup HandlersOf("phantom", conn.nconn)]
                       ELSE prov
            /\ mcall' = MCall("connect", <<>>, pk, "ok", << "connect" >>)
    /\ UNCHANGED <<nwcVars, wcall, memVars, lst, fired>>

\* disconnect(), up to `await sol?.disconnect?.()`: sol is this._sol ||
\* window.solana at this moment
PhDisconnect ==
    /\ conn.kind = "phantom"
    /\ conn.dpc = "idle"
    /\ conn' = [conn EXCEPT !.dpc = "await", !.dsol = (conn.eth \/ prov.present)]
    /\ mcall' = MCall("disconnect", <<>>, <<>>, "pending", <<>>)
    /\ UNCHANGED <<nwcVars, wcall, memVars, prov, lst, fired>>

\* disconnect() resumes (a rejection of sol.disconnect() is swallowed)
PhDisconnectDone ==
    /\ conn.kind = "phantom"
    /\ conn.dpc = "await"
    /\ prov' = IF conn.dsol /\ prov.hasRemove
               THEN [prov EXCEPT !.cbs = { c \in @ : c.h # conn.handlers }]
               ELSE prov
    /\ conn' = [conn EXCEPT !.connected = FALSE, !.account = 0, !.handlers = 0,
                            !.eth = FALSE, !.dpc = "idle", !.dsol = FALSE]
    /\ lst' = {}
    /\ fired' = [fired EXCEPT !.dead = @ \cup lst]
    /\ mcall' = MCall("disconnect", <<>>, <<>>, "ok", <<>>)
    /\ UNCHANGED <<nwcVars, wcall, memVars>>

----------------------------------------------------------------------------
(* The provider emits an event: every handler registered for it runs, and  *)
(* each re-emits the event to the connector's listeners.                   *)

ProviderEvent(ev, data) ==
    /\ conn.kind \in {"metamask", "phantom"}
    /\ fired.n < MaxEmits
    /\ \E c \in prov.cbs : c.ev = ev
    /\ conn' = CASE ev = "accountsChanged" -> [conn EXCEPT !.account = data]
                 [] ev = "chainChanged" -> [conn EXCEPT !.chainId = data]
                 [] ev = "disconnect" -> [conn EXCEPT !.connected = FALSE]
                 [] ev = "accountChanged" ->
                        IF conn.eth /\ data # 0 THEN [conn EXCEPT !.account = data]
                        ELSE conn
    /\ fired' = [fired EXCEPT !.n = @ + 1, !.ev = ev,
                              !.invoked = { l \in lst : l.ev = ev },
                              !.deadThen = fired.dead]
    /\ UNCHANGED <<nwcVars, wcall, memVars, prov, mcall, lst>>

----------------------------------------------------------------------------
(* MetaMaskConnector.signMessage / sendTransaction.  A call and the         *)
(* provider's answer to the request it makes, if it makes one, are one      *)
(* step: nothing of the connector is written between the two.               *)

\* what a caller can pass as message: a Uint8Array of len bytes, or a string
MessageInputs ==
    { [kind |-> "u8", len |-> 0], [kind |-> "u8", len |-> 1],
      [kind |-> "str", len |-> 1] }

\* what the provider answers to personal_sign / eth_sendTransaction: a hex
\* string of `digits` hex digits after 0x, undefined, or a thrown error
\* with its code and whether its message includes 'User rejected'
ResponseInputs ==
    { [kind |-> "hex", digits |-> n, code |-> 0, userRejected |-> FALSE] :
          n \in {2, 130, 131} }
    \cup { [kind |-> "undefined", digits |-> 0, code |-> 0, userRejected |-> FALSE] }
    \cup { [kind |-> "err", digits |-> 0, code |-> c[1], userRejected |-> c[2]] :
               c \in { <<4001, FALSE>>, <<0, TRUE>>, <<0, FALSE>> } }

\* an address string: "addr" is 0x and 40 hex digits naming account acct,
\* with its letters in upper case or not; "short" is '0x123'
AddrInputs ==
    { [kind |-> "addr", acct |-> a, upper |-> u] : a \in 1..NumAccounts, u \in BOOLEAN }
    \cup { [kind |-> k, acct |-> 0, upper |-> FALSE] : k \in {"absent", "short"} }

\* the tx argument: null, or an object whose fields are absent, well formed
\* ("addr", "hex") or a string of another shape ("short", "bad"); rest
\* stands for value, data and the gas-like fields, foo is a key outside the
\* allowed set
TxInputs ==
    { [isNull |-> n, from |-> f, to |-> t, rest |-> g, foo |-> x] :
        n \in {FALSE}, f \in AddrInputs, t \in {"addr", "short"},
        g \in {"absent", "bad"}, x \in BOOLEAN }
    \cup { [isNull |-> TRUE, from |-> [kind |-> "absent", acct |-> 0, upper |-> FALSE],
            to |-> "absent", rest |-> "absent", foo |-> FALSE] }

\* what the provider answers to eth_sendTransaction: a hash or an error
HashInputs == { r \in ResponseInputs : r.kind = "err" \/ r.digits = 2 }

\* String.prototype.toLowerCase on an address string
addrToLowerCase(s) == [s EXCEPT !.upper = FALSE]

\* this.account as the provider returned it: lower case hex
accountString(acc) == [kind |-> "addr", acct |-> acc, upper |-> FALSE]

\* out.length: new Uint8Array(clean.length / 2) truncates a fraction
decodedLength(sigHex) == sigHex.digits \div 2

\* the catch block of both methods
surfaced(e) ==
    IF e.code = 4001 \/ e.userRejected THEN "UserRejectedError" ELSE "Error"

\* signMessage(message) with the provider answering resp: [outcome, sent]
signMessage(message, resp) ==
    IF ~conn.connected \/ conn.account = 0
    THEN [outcome |-> "ValidationError", sent |-> <<>>]
    ELSE IF message.kind # "u8" \/ message.len = 0
    THEN [outcome |-> "ValidationError", sent |-> <<>>]
    ELSE IF ~(conn.eth \/ prov.present)
    THEN [outcome |-> "ProviderNotFoundError", sent |-> <<>>]
    ELSE [outcome |->
            CASE resp.kind = "err" -> surfaced(resp)
              [] resp.kind = "undefined" -> "TypeError"
              [] OTHER -> IF decodedLength(resp) # 65 THEN "ValidationError" ELSE "ok",
          sent |-> << "personal_sign" >>]

\* variant: keys outside the allowed set are passed on
sendTransactionAnyField(tx, resp) ==
    IF ~(conn.eth \/ prov.present)
    THEN [outcome |-> "ProviderNotFoundError", sent |-> <<>>]
    ELSE IF tx.isNull \/ tx.from.kind # "addr"
    THEN [outcome |-> "ValidationError", sent |-> <<>>]
    ELSE IF conn.account # 0
            /\ addrToLowerCase(tx.from) # addrToLowerCase(accountString(conn.account))
    THEN [outcome |-> "ValidationError", sent |-> <<>>]
    ELSE IF tx.to = "short"
    THEN [outcome |-> "ValidationError", sent |-> <<>>]
    ELSE IF tx.rest = "bad"
    THEN [outcome |-> "ValidationError", sent |-> <<>>]
    ELSE [outcome |-> IF resp.kind = "err" THEN surfaced(resp) ELSE "ok",
          sent |-> << "eth_sendTransaction" >>]

\* sendTransaction(tx) with the provider answering resp: [outcome, sent]
sendTransaction(tx, resp) ==
    IF ~(conn.eth \/ prov.present)
    THEN [outcome |-> "ProviderNotFoundError", sent |-> <<>>]
    ELSE IF tx.isNull \/ tx.from.kind # "addr"
    THEN [outcome |-> "ValidationError", sent |-> <<>>]
    ELSE IF conn.account # 0
            /\ addrToLowerCase(tx.from) # addrToLowerCase(accountString(conn.account))
    THEN [outcome |-> "ValidationError", sent |-> <<>>]
    ELSE IF tx.to = "short"
    THEN [outcome |-> "ValidationError", sent |-> <<>>]
    ELSE IF tx.foo \/ tx.rest = "bad"
    THEN [outcome |-> "ValidationError", sent |-> <<>>]
    ELSE [outcome |-> IF resp.kind = "err" THEN surfaced(resp) ELSE "ok",
          sent |-> << "eth_sendTransaction" >>]

\* the chainId argument of switchChain: a number (-1 stands for the numbers
\* whose toString(16) is not a run of hex digits), a 0x-prefixed hex string,
\* or some other string
ChainIdInputs ==
    { [kind |-> "number", n |-> 1], [kind |-> "number", n |-> 0 - 1],
      [kind |-> "hex", n |-> 1], [kind |-> "text", n |-> 0] }

\* hexId and whether it passes /^0x[0-9a-fA-F]+$/: [ok, id]
hexIdOf(chainId) ==
    CASE chainId.kind = "number" -> [ok |-> chainId.n >= 0, id |-> chainId.n]
      [] chainId.kind = "hex" -> [ok |-> TRUE, id |-> chainId.n]
      [] OTHER -> [ok |-> FALSE, id |-> 0]

\* what the provider answers to wallet_switchEthereumChain: null or an error
SwitchInputs ==
    { r \in ResponseInputs : r.kind = "undefined" \/ (r.kind = "err" /\ r.code = 4001) }

\* switchChain(chainId) with the provider answering resp: [outcome, sent,
\* chainId]; an error of the provider is thrown on as it is
switchChain(chainId, resp) ==
    IF ~(conn.eth \/ prov.present)
    THEN [outcome |-> "ProviderNotFoundError", sent |-> <<>>, chainId |-> conn.chainId]
    ELSE IF ~hexIdOf(chainId).ok
    THEN [outcome |-> "ValidationError", sent |-> <<>>, chainId |-> conn.chainId]
    ELSE IF resp.kind = "err"
    THEN [outcome |-> "Error", sent |-> << "wallet_switchEthereumChain" >>,
          chainId |-> conn.chainId]
    ELSE [outcome |-> "ok", sent |-> << "wallet_switchEthereumChain" >>,
          chainId |-> hexIdOf(chainId).id]

MmSwitchChain(chainId, resp) ==
    /\ conn.kind = "metamask"
    /\ LET r == switchChain(chainId, resp)
       IN  /\ mcall' = MCall("switchChain", chainId,
                             IF r.sent = <<>> THEN <<>> ELSE resp, r.outcome, r.sent)
           /\ conn' = [conn EXCEPT !.chainId = r.chainId]
    /\ UNCHANGED <<nwcVars, wcall, memVars, prov, lst, fired>>

MmSignMessage(message, resp) ==
    /\ conn.kind = "metamask"
    /\ LET r == signMessage(message, resp)
       IN  mcall' = MCall("signMessage", message,
                          IF r.sent = <<>> THEN <<>> ELSE resp, r.outcome, r.sent)
    /\ UNCHANGED <<nwcVars, wcall, memVars, prov, conn, lst, fired>>

MmSendTransaction(tx, resp) ==
    /\ conn.kind = "metamask"
    /\ LET r == sendTransaction(tx, resp)
       IN  mcall' = MCall("sendTransaction", tx,
                          IF r.sent = <<>> THEN <<>> ELSE resp, r.outcome, r.sent)
    /\ UNCHANGED <<nwcVars, wcall, memVars, prov, conn, lst, fired>>

NextListeners ==
    \/ \E kind \in Kinds : Create(kind)
    \/ \E p \in ProviderInputs : SetWindow(p)
    \/ UnsetWindow
    \/ \E ev \in {"accountsChanged", "chainChanged", "disconnect", "accountChanged"} : On(ev)
    \/ MmConnect
    \/ \E acc \in -1..NumAccounts : MmAccounts(acc)
    \/ \E cid \in 0..1 : MmChain(cid)
    \/ MmDisconnect
    \/ PhConnect
    \/ \E pk \in -1..NumAccounts : PhConnected(pk)
    \/ PhDisconnect
    \/ PhDisconnectDone
    \/ \E ev \in {"accountsChanged", "chainChanged", "disconnect", "accountChanged"} :
          \E data \in 0..NumAccounts : ProviderEvent(ev, data)
    \/ (conn.kind = "nwc" /\ \E opt \in ConnectInputs : Connect(opt))
    \/ (conn.kind = "nwc" /\ Disconnect)

SpecListeners == Init /\ [][NextListeners]_vars

NextRequests ==
    \/ \E kind \in {"metamask"} : Create(kind)
    \/ \E p \in { q \in ProviderInputs : q.hasOn /\ q.hasRemove } : SetWindow(p)
    \/ UnsetWindow
    \/ MmConnect
    \/ \E acc \in -1..NumAccounts : MmAccounts(acc)
    \/ \E cid \in {1} : MmChain(cid)
    \/ MmDisconnect
    \/ \E ev \in {"accountsChanged"} :
          \E data \in 0..NumAccounts : ProviderEvent(ev, data)
    \/ \E message \in MessageInputs, resp \in ResponseInputs :
          MmSignMessage(message, resp)
    \/ \E tx \in TxInputs, resp \in HashInputs : MmSendTransaction(tx, resp)
    \/ \E chainId \in ChainIdInputs, resp \in SwitchInputs : MmSwitchChain(chainId, resp)

SpecRequests == Init /\ [][NextRequests]_vars

----------------------------------------------------------------------------
(* Properties of the connectors *)

\* C24: a completed disconnect() of a MetaMaskConnector, PhantomConnector or
\* NwcConnector leaves the connector with no listener for any event, and an
\* event the provider delivers never invokes a listener that was registered
\* when an earlier disconnect() completed.
C24_ListenerCleanup ==
    [][/\ (MmDisconnect \/ PhDisconnectDone \/ (conn.kind = "nwc" /\ Disconnect))
             => lst' = {}
       /\ fired'.n = fired.n + 1 => fired'.invoked \cap fired'.dead = {}]_vars

\* a MetaMask provider without removeListener delivered an event to the
\* connector's handler after a disconnect() that had found a listener for
\* that event, and no listener was invoked
C24_Witness ==
    /\ conn.kind = "metamask"
    /\ ~prov.hasRemove
    /\ fired.n > 0
    /\ \E l \in fired.deadThen : l.ev = fired.ev
    /\ fired.invoked = {}

\* the call recorded in mcall was rejected / made no provider request
MmRejected == mcall.outcome # "ok"

MmNothingSent == mcall.sent = <<>>

\* the validation failures of signMessage and sendTransaction that are
\* found from the arguments and the connector alone
MmArgumentFailure ==
    \/ /\ mcall.fn = "signMessage"
       /\ \/ ~mcall.was.connected
          \/ mcall.arg.kind = "u8" /\ mcall.arg.len = 0
    \/ /\ mcall.fn = "sendTransaction"
       /\ ~mcall.arg.isNull
       /\ \/ mcall.arg.from.kind # "addr"
          \/ /\ mcall.was.account # 0
             /\ mcall.arg.from.acct # mcall.was.account
          \/ mcall.arg.foo

----------------------------------------------------------------------------
\* C36: on a provider that supports removeListener, a completed disconnect()
\* of a MetaMaskConnector or PhantomConnector leaves none of the connector's
\* handlers registered on the provider, however many connect() calls came
\* before it; hence a provider event after disconnect() changes neither the
\* connector's account or address, nor its chain id, nor its connected flag.
Disconnected == mcall.fn = "disconnect" /\ mcall.outcome = "ok"

C36_NoneRegistered ==
    (conn.kind \in {"metamask", "phantom"} /\ Disconnected /\ prov.hasRemove)
        => prov.cbs = {}

C36_EventStep ==
    (conn.kind \in {"metamask", "phantom"} /\ Disconnected /\ prov.hasRemove
       /\ fired'.n = fired.n + 1)
        => conn' = conn

C36_NoHandlerLeak == []C36_NoneRegistered /\ [][C36_EventStep]_vars

----------------------------------------------------------------------------
\* getAddress() of MetaMaskConnector / PhantomConnector: [ok, addr]
connGetAddress(c) ==
    IF ~c.connected \/ c.account = 0 THEN [ok |-> FALSE, addr |-> 0]
    ELSE [ok |-> TRUE, addr |-> c.account]

\* C37: for MetaMaskConnector and PhantomConnector, whenever isConnected()
\* is true getAddress() resolves to a non-empty address, and after an
\* accountsChanged / accountChanged event on a connected connector it
\* resolves to the first account the provider announced.
C37_Addressable ==
    (conn.kind \in {"metamask", "phantom"} /\ conn.connected)
        => connGetAddress(conn).ok

C37_EventStep ==
    \A ev \in {"accountsChanged", "accountChanged"}, data \in 1..NumAccounts :
        (ProviderEvent(ev, data) /\ conn'.connected)
            => connGetAddress(conn') = [ok |-> TRUE, addr |-> data]

C37_ConnectedImpliesAddress == []C37_Addressable /\ [][C37_EventStep]_vars

----------------------------------------------------------------------------
\* C38: MetaMaskConnector.signMessage, sendTransaction and switchChain make
\* no request to the provider while the connector is not connected, and
\* sendTransaction passes on no transaction whose from is another address
\* than the connected account.
C38_NoRequestUnconnected ==
    /\ (mcall.fn \in {"signMessage", "sendTransaction", "switchChain"}
          /\ mcall.sent # <<>>)
         => mcall.was.connected
    /\ (mcall.fn = "sendTransaction" /\ mcall.sent # <<>>)
         => /\ mcall.was.account # 0
            /\ mcall.arg.from.acct = mcall.was.account

----------------------------------------------------------------------------
(***************************************************************************)
(* Part VI : WalletManager (wallet-connectors/src/manager.ts).             *)
(*                                                                         *)
(* mgr.providers is the Map in insertion order, an entry being a wallet    *)
(* type and the connector instance stored for it; an instance is named by  *)
(* its type and the number of instances of that type constructed up to     *)
(* it.  connect() is two steps, before and after `await                    *)
(* provider.connect(options)`; what the connector's connect() does is      *)
(* Parts I and V, and here it just resolves or rejects.                    *)
(***************************************************************************)

MaxMgrCalls == 3     \* WalletManager.connect() calls

\* the values of WalletType
WalletTypes == {"metamask", "phantom", "nwc", "seedid-derived"}

\* the values of Chain
Chains == {"eth", "sol", "lightning"}

\* the readonly chain field of each connector class
ChainOf(type) ==
    CASE type = "metamask" -> "eth"
      [] type = "phantom" -> "sol"
      [] type = "nwc" -> "lightning"
      [] OTHER -> "none"

NoProvider == [type |-> "none", id |-> 0]

\* the number of instances of the type constructed so far
MadeOf(type) == Cardinality({ i \in 1..Len(mgr.made) : mgr.made[i] = type })

\* this.providers.get(type): NoProvider stands for undefined
providersGet(type) ==
    IF \E i \in 1..Len(mgr.providers) : mgr.providers[i].type = type
    THEN mgr.providers[CHOOSE i \in 1..Len(mgr.providers) : mgr.providers[i].type = type]
    ELSE NoProvider

\* getProvider(chain): the first value of the map whose chain is the one
\* asked for, or null
getProvider(chain) ==
    LET hits == { i \in 1..Len(mgr.providers) : ChainOf(mgr.providers[i].type) = chain }
    IN  IF hits = {} THEN NoProvider
        ELSE mgr.providers[CHOOSE i \in hits : \A j \in hits : i <= j]

MgrCall(fn, arg, outcome, ret) ==
    [fn |-> fn, arg |-> arg, outcome |-> outcome, ret |-> ret]

\* connect(type, options), up to `await provider.connect(options)`
MgrConnect(type) ==
    /\ mgr.n < MaxMgrCalls
    /\ LET found == providersGet(type)
           fresh == [type |-> type, id |-> MadeOf(type) + 1]
       IN  IF found # NoProvider
           THEN mgr' = [mgr EXCEPT
                          !.n = @ + 1,
                          !.pending = @ \cup {[k |-> mgr.n + 1, provider |-> found]},
                          !.call = MgrCall("connect", type, "pending", NoProvider)]
           ELSE IF type \in {"metamask", "phantom", "nwc"}
           THEN mgr' = [mgr EXCEPT
                          !.n = @ + 1,
                          !.made = Append(@, type),
                          !.providers = Append(@, fresh),
                          !.pending = @ \cup {[k |-> mgr.n + 1, provider |-> fresh]},
                          !.call = MgrCall("connect", type, "pending", NoProvider)]
           ELSE mgr' = [mgr EXCEPT
                          !.n = @ + 1,
                          !.call = MgrCall("connect", type, "Error", NoProvider)]
    /\ UNCHANGED <<nwcVars, wcall, heap, caller, webVars, lst, fired>>

\* connect() resumes: provider.connect(options) resolved (ok) or rejected
MgrConnectDone(c, ok) ==
    /\ c \in mgr.pending
    /\ mgr' = [mgr EXCEPT
                  !.pending = @ \ {c},
                  !.okEver = IF ok THEN @ \cup {c.provider.type} ELSE @,
                  !.call = IF ok THEN MgrCall("connect", c.provider.type, "ok", c.provider)
                           ELSE MgrCall("connect", c.provider.type, "Error", NoProvider)]
    /\ UNCHANGED <<nwcVars, wcall, heap, caller, webVars, lst, fired>>

MgrGetProvider(chain) ==
    /\ mgr' = [mgr EXCEPT !.call = MgrCall("getProvider", chain, "ok", getProvider(chain))]
    /\ UNCHANGED <<nwcVars, wcall, heap, caller, webVars, lst, fired>>

NextManager ==
    \/ \E type \in WalletTypes : MgrConnect(type)
    \/ \E c \in mgr.pending, ok \in BOOLEAN : MgrConnectDone(c, ok)
    \/ \E chain \in Chains : MgrGetProvider(chain)

SpecManager == Init /\ [][NextManager]_vars

----------------------------------------------------------------------------
\* C39: connect(type) constructs at most one provider per wallet type and
\* every connect(type) that succeeds returns the instance the registry
\* holds; an unsupported type throws and registers nothing; getProvider(chain)
\* returns a provider of that chain, and returns null unless a connect() of a
\* wallet of that chain has completed successfully: a connect() that fails
\* leaves nothing in the registry.
C39_OnePerType ==
    /\ \A type \in WalletTypes : MadeOf(type) <= 1
    /\ (mgr.call.fn = "connect" /\ mgr.call.outcome = "ok")
          => mgr.call.ret = providersGet(mgr.call.arg)

C39_Unsupported ==
    /\ providersGet("seedid-derived") = NoProvider
    /\ (mgr.call.fn = "connect" /\ mgr.call.arg = "seedid-derived")
          => mgr.call.outcome = "Error"

C39_GetProvider ==
    (mgr.call.fn = "getProvider" /\ mgr.call.ret # NoProvider)
        => /\ ChainOf(mgr.call.ret.type) = mgr.call.arg
           /\ mgr.call.ret.type \in mgr.okEver

C39_FailedConnect ==
    \A i \in 1..Len(mgr.providers) :
        \/ mgr.providers[i].type \in mgr.okEver
        \/ \E c \in mgr.pending : c.provider = mgr.providers[i]

C39_Registry ==
    C39_OnePerType /\ C39_Unsupported /\ C39_GetProvider /\ C39_FailedConnect

====
